---- MODULE Spec2Model ----
(***************************************************************************)
(* A model of EC_MS's Combining.py: the column taxonomy (is_time,          *)
(* get_type, get_timecol), the windowing functions (cut_dataset,           *)
(* timeshift), synchronize, the function that merges datasets recorded     *)
(* on separate clocks into one dataset on a common time axis, and the      *)
(* calibrations of a dataset's time column against a reference (time_cal)  *)
(* and against triggers (trigger_times, trigger_cal).                      *)
(*                                                                         *)
(* A dataset is a Python dict: here a function from keys (strings) to      *)
(* values.  A numpy array is a sequence of integers.                       *)
(***************************************************************************)
EXTENDS Integers, Sequences, FiniteSets, TLC

VARIABLES
    pc,              \* where the call stands
    args,            \* the arguments of the call (t_zero, append, cutit, ...)
    data_objects,    \* the datasets as they were handed in (never written)
    datasets,        \* the live list of datasets (same dicts, mutated in place)
    append,          \* append after line 108
    override,        \* override after line 110
    recstarts, t_start, t_finish, t_first, t_last, hasdata, title_combined,
    t_zero,          \* the resolved time origin (line 210-217)
    combined_data,   \* the dict being built
    combined_data_keys_0,
    fn_timecol,      \* "unbound" until line 261 binds it
    nd,              \* loop counter of the first loop
    i,               \* loop counter of the second loop
    asked,           \* how many times offerquit was reached
    answer,          \* what offerquit read, "" before it has
    object_data,     \* for each object handed in, whether it is a wrapper
                     \* and what its attribute data holds
    result,          \* the returned dict, once pc = "done"
    \* cut_dataset, called twice over
    cut_pc,          \* where the two calls stand
    cut_args,        \* dataset_0, tspan and t_zero of the calls
    cut_first,       \* what the first call returned
    cut_second,      \* what the call on cut_first returned
    \* time_cal, called time after time on one dataset
    tc_pc,           \* "idle", "ready" for a call, or "raised"
    tc_data,         \* the dataset, which time_cal writes in place
    tc_last,         \* the arguments of the last call, and the dataset before it
    tc_calls,        \* how many calls have returned
    tg_pc,           \* where the call of trigger_cal stands
    tg_data,         \* the dataset, which trigger_cal writes in place
    tg_last,         \* the arguments of the last call, the dataset before it
                     \* and what the call returned
    tg_calls,        \* how many calls have been made
    \* synchronize, called again on the same datasets in another order
    run,             \* which of the two calls this is, 0 when there is but one
    first_objects,   \* the list the first call was handed
    first_result,    \* what the first call returned
    \* is_time and get_timecol, asked about one column name
    nm_pc,           \* "idle", or "ready" for a question
    nm_col,          \* the column name
    nm_is_time,      \* what is_time returned, "unasked" before it has
    nm_timecol,      \* what get_timecol returned, "unasked" before it has
    \* cut, called once
    w_pc,            \* "idle", "call", or how the call ended
    w_args,          \* x, y, tspan, returnindeces and override of the call
    w_asked,         \* how many times offerquit was reached
    w_result         \* what the call returned

syncvars == <<pc, args, data_objects, datasets, append, override, recstarts,
              t_start, t_finish, t_first, t_last, hasdata, title_combined, t_zero,
              combined_data, combined_data_keys_0, fn_timecol, nd, i, asked, answer,
              object_data, result>>

cutvars == <<cut_pc, cut_args, cut_first, cut_second>>

calvars == <<tc_pc, tc_data, tc_last, tc_calls>>

trigvars == <<tg_pc, tg_data, tg_last, tg_calls>>

againvars == <<run, first_objects, first_result>>

namevars == <<nm_pc, nm_col, nm_is_time, nm_timecol>>

windowvars == <<w_pc, w_args, w_asked, w_result>>

vars == <<syncvars, cutvars, calvars, trigvars, againvars, namevars, windowvars>>

\* What a step of synchronize, of cut_dataset, of time_cal and of trigger_cal
\* leaves alone
notsync == <<cutvars, calvars, trigvars, againvars, namevars, windowvars>>
notcut == <<syncvars, calvars, trigvars, againvars, namevars, windowvars>>
notcal == <<syncvars, cutvars, trigvars, againvars, namevars, windowvars>>
nottrig == <<syncvars, cutvars, calvars, againvars, namevars, windowvars>>
notname == <<syncvars, cutvars, calvars, trigvars, againvars, windowvars>>
notwindow == <<syncvars, cutvars, calvars, trigvars, againvars, namevars>>

-----------------------------------------------------------------------------
(* Bounds of the model and constants of the program *)

MaxDatasets == 3
MaxRows == 2

\* time.time(): "necessarily larger than the acquisition epochtime of any of the data"
Now == 1000

Min(a, b) == IF a < b THEN a ELSE b
Max(a, b) == IF a > b THEN a ELSE b

Range(s) == {s[k] : k \in DOMAIN s}

-----------------------------------------------------------------------------
(* Python string slices *)

\* col[-2:]
Last2(col) == IF Len(col) >= 2 THEN SubSeq(col, Len(col) - 1, Len(col)) ELSE col

\* col[:-2]
DropLast2(col) == IF Len(col) >= 2 THEN SubSeq(col, 1, Len(col) - 2) ELSE ""

\* col[0:4]
First4(col) == SubSeq(col, 1, Min(4, Len(col)))

CharAt(col, k) == SubSeq(col, k, k)

Digits == {"0", "1", "2", "3", "4", "5", "6", "7", "8", "9"}

-----------------------------------------------------------------------------
(* Column taxonomy *)

\* EC.EC_cols_0: the fixed vocabulary of electrochemical channel names
EC_cols_0 == {"time/s", "Ewe/V", "I/A", "file number"}

\* re.search(r'^M[0-9]+-[xy]', col)
is_MS_data(col) ==
    /\ Len(col) >= 4
    /\ CharAt(col, 1) = "M"
    /\ \E e \in 2..(Len(col) - 2) :
          /\ \A k \in 2..e : CharAt(col, k) \in Digits
          /\ CharAt(col, e + 1) = "-"
          /\ CharAt(col, e + 2) \in {"x", "y"}

is_EC_data(col) ==
    \/ col \in EC_cols_0
    \/ /\ Len(col) >= 1
       /\ CharAt(col, Len(col)) = "*"
       /\ SubSeq(col, 1, Len(col) - 1) \in EC_cols_0

get_type(col) ==
    IF is_EC_data(col) THEN "EC"
    ELSE IF is_MS_data(col) THEN "MS"
    ELSE IF Last2(col) \in {"-x", "-y"} THEN "cinfdata"
    ELSE "Xray"

\* re.search(r'_[0-9][0-9]*\Z', col): the start of the match, 0 if there is none
SuffixStart(col) ==
    LET starts == {s \in 1..(Len(col) - 1) :
                      /\ CharAt(col, s) = "_"
                      /\ \A k \in (s + 1)..Len(col) : CharAt(col, k) \in Digits}
    IN IF starts = {} THEN 0 ELSE CHOOSE s \in starts : \A u \in starts : s <= u

RECURSIVE is_time(_)
is_time(col) ==
    LET col_type == get_type(col) IN
    IF col_type = "EC" THEN First4(col) = "time"
    ELSE IF col_type \in {"MS", "cinfdata"} THEN Last2(col) = "-x"
    ELSE IF col_type = "Xray" THEN col = "t"
    ELSE IF SuffixStart(col) > 0 THEN is_time(SubSeq(col, 1, SuffixStart(col) - 1))
    ELSE FALSE

\* get_timecol(col): data_type is None, so it is get_type(col)
get_timecol(col) ==
    LET data_type == get_type(col) IN
    IF data_type = "EC" THEN "time/s"
    ELSE IF data_type = "MS" THEN DropLast2(col) \o "-x"
    ELSE IF data_type = "Xray" THEN "t"
    ELSE IF Last2(col) \in {"-y", "-x"} THEN DropLast2(col) \o "-x"
    ELSE "None"

\* get_timecol(data_type=file_number_type): col is None
get_timecol_of_type(data_type) ==
    IF data_type = "EC" THEN "time/s"
    ELSE IF data_type = "MS" THEN "M4-x"
    ELSE IF data_type = "Xray" THEN "t"
    ELSE "raise"

-----------------------------------------------------------------------------
(* The inputs of the model: datasets as an importer produces them *)

\* A layout is what one kind of file gives: its data_type and its data_cols.
\*   EC3   an EC technique recording potential and current
\*   EC2   an EC technique without current (OCV), data column listed first
\*   MS    a mass-spectrometer file with one mass channel
\*   RE    the result of an earlier separate-mode synchronize of two EC files
\*   none  a dataset without data columns
\*   ECX   an EC file with a column of another instrument, whose time column
\*         it does not have
Layouts ==
    [EC3  |-> [data_type |-> "EC", data_cols |-> <<"time/s", "Ewe/V", "I/A">>],
     EC2  |-> [data_type |-> "EC", data_cols |-> <<"Ewe/V", "time/s">>],
     MS   |-> [data_type |-> "MS", data_cols |-> <<"M4-x", "M4-y">>],
     RE   |-> [data_type |-> "combined",
               data_cols |-> <<"time/s", "Ewe/V", "time/s_1", "Ewe/V_1">>],
     none |-> [data_type |-> "EC", data_cols |-> <<>>],
     ECX  |-> [data_type |-> "EC", data_cols |-> <<"time/s", "counts", "Ewe/V">>]]

\* What a file records: the epoch time of its t=0, its first sample and how
\* many rows.  In epoch time the three record 103..104, 102..103 and 102.
Late  == [tstamp |-> 100, tfirst |-> 3, rows |-> MaxRows]
Early == [tstamp |-> 102, tfirst |-> 0, rows |-> MaxRows]
Short == [tstamp |-> 102, tfirst |-> 0, rows |-> MaxRows - 1]

Titles == <<"A", "B", "C", "D">>

\* The sample of row k of the column at place c of dataset number j (1-based):
\* never 0, and different for every dataset, column and row.
Sample(j, c, k) == 100 * j + 10 * c + k

\* The array of the column at place c: a time column counts up from the
\* first sample, one second per row.
ColumnArray(j, c, col, tfirst, rows) ==
    [k \in 1..rows |-> IF is_time(col) THEN tfirst + k - 1 ELSE Sample(j, c, k)]

RECURSIVE ColumnsDict(_, _, _, _, _)
ColumnsDict(j, cols, c, tfirst, rows) ==
    IF c > Len(cols) THEN <<>>
    ELSE (cols[c] :> ColumnArray(j, c, cols[c], tfirst, rows))
         @@ ColumnsDict(j, cols, c + 1, tfirst, rows)

\* What the result of an earlier synchronize carries besides its columns:
\* the fields of lines 221-237 and the nested metadata of lines 389-416
EarlierMerge ==
    [tspan_0 |-> <<102, 102>>, tspan_1 |-> <<2, 2>>, tspan |-> <<0, 0>>,
     timestamp |-> "00:01:42", first |-> -2, last |-> 0, start |-> 0, finish |-> 0,
     _title |-> (0 :> "X" @@ 1 :> "Y")]

MakeDataset(j, layout, rec) ==
    ColumnsDict(j, Layouts[layout].data_cols, 1, rec.tfirst, rec.rows)
    @@ [title |-> Titles[j],
        data_type |-> Layouts[layout].data_type,
        data_cols |-> Layouts[layout].data_cols]
    @@ (IF "tstamp" \in DOMAIN rec THEN [tstamp |-> rec.tstamp]
        ELSE [date |-> rec.date, timestamp |-> rec.timestamp])
    @@ (IF layout = "RE" THEN EarlierMerge ELSE <<>>)

\* A file that is empty after its header: its columns hold empty arrays
HeaderOnly == [tstamp |-> 100, tfirst |-> 0, rows |-> 0]

\* The files a dataset of the list is drawn from
DatasetChoices(j) ==
    {MakeDataset(j, "EC3", Late),
     MakeDataset(j, "EC3", Early),
     MakeDataset(j, "EC2", Short),
     MakeDataset(j, "MS", Early),
     MakeDataset(j, "RE", Short),
     MakeDataset(j, "EC3", HeaderOnly),
     MakeDataset(j, "none", HeaderOnly)}

\* t_zero: one of the four policies, or a unix epoch time
TZeroChoices ==
    {[policy |-> p, at |-> 0] : p \in {"start", "first", "last", "finish"}}
    \cup {[policy |-> "number", at |-> 101]}

\* The arguments of the call: every combination in which t_zero or the pair
\* of file_number_type and override is left at its default.
ArgChoices ==
    {a \in [t_zero : TZeroChoices,
            append : {"None", "True", "False"},
            file_number_type : {"EC", "MS"},
            cutit : BOOLEAN,
            cut_buffer : {1},
            override : {"None", "True", "False"},
            update : {TRUE}] :
        \/ a.t_zero.policy = "start"
        \/ a.file_number_type = "EC" /\ a.override = "None"}

RECURSIVE DatasetLists(_)
DatasetLists(n) ==
    IF n = 0 THEN {<<>>}
    ELSE {Append(l, d) : l \in DatasetLists(n - 1), d \in DatasetChoices(n)}

-----------------------------------------------------------------------------
(* synchronize *)

\* The empty dict
EmptyDict == <<>>

\* d[k] = v on a dict
DictSet(d, k, v) == (k :> v) @@ d

\* No call of cut_dataset
CutIdle ==
    /\ cut_pc = "idle"
    /\ cut_args = EmptyDict
    /\ cut_first = EmptyDict
    /\ cut_second = EmptyDict

\* No call of time_cal
CalIdle ==
    /\ tc_pc = "idle"
    /\ tc_data = EmptyDict
    /\ tc_last = EmptyDict
    /\ tc_calls = 0

\* No call of trigger_cal
TrigIdle ==
    /\ tg_pc = "idle"
    /\ tg_data = EmptyDict
    /\ tg_last = EmptyDict
    /\ tg_calls = 0

\* No second call of synchronize
OneCall ==
    /\ run = 0
    /\ first_objects = <<>>
    /\ first_result = EmptyDict

\* No question to is_time or get_timecol
NameIdle ==
    /\ nm_pc = "idle"
    /\ nm_col = ""
    /\ nm_is_time = "unasked"
    /\ nm_timecol = "unasked"

\* No call of cut
WindowIdle ==
    /\ w_pc = "idle"
    /\ w_args = EmptyDict
    /\ w_asked = 0
    /\ w_result = EmptyDict

\* The variables of synchronize that the call has yet to assign
Unassigned ==
    /\ append = FALSE
    /\ override = FALSE
    /\ recstarts = <<>>
    /\ t_start = 0
    /\ t_finish = 0
    /\ t_first = 0
    /\ t_last = 0
    /\ hasdata = EmptyDict
    /\ title_combined = ""
    /\ t_zero = 0
    /\ combined_data = EmptyDict
    /\ combined_data_keys_0 = {}
    /\ fn_timecol = "unbound"
    /\ nd = 0
    /\ i = 0
    /\ asked = 0
    /\ answer = ""
    /\ result = EmptyDict

\* The objects handed in: wrappers (objects with an attribute data, as a
\* ScanImages of EC_Xray) for none, the first or all of the datasets
Objects(list, wrappers) ==
    [j \in DOMAIN list |->
        [wrapped |-> wrappers = "all" \/ (wrappers = "first" /\ j = 1),
         data |-> list[j]]]

\* synchronize is called on a list of datasets
Init ==
    /\ OneCall
    /\ NameIdle
    /\ WindowIdle
    /\ CutIdle
    /\ CalIdle
    /\ TrigIdle
    /\ pc = "call"
    /\ args \in ArgChoices
    /\ \E n \in 0..MaxDatasets : data_objects \in DatasetLists(n)
    /\ datasets = data_objects
    /\ object_data = Objects(data_objects, "none")
    /\ Unassigned

\* A variant of DefaultOverride that checks for overlap unless told not to:
\* the decision point of C14 depends on override following append.
OverrideUnlessAsked(given, a) == given = "True"

\* Lines 109-110: override is append unless it is given
DefaultOverride(given, a) == IF given = "None" THEN a ELSE given = "True"

\* Lines 84-128: the defaults of append and override, and the accumulators
\* of the first loop.
Start ==
    /\ pc = "call"
    /\ UNCHANGED notsync
    /\ LET a == IF args.append = "None"
                THEN Cardinality({datasets[j].data_type : j \in DOMAIN datasets}) = 1
                ELSE args.append = "True"
       IN /\ append' = a
          /\ override' = DefaultOverride(args.override, a)
    /\ recstarts' = <<>>
    /\ t_start' = 0
    /\ t_finish' = Now
    /\ t_first' = Now
    /\ t_last' = 0
    /\ hasdata' = EmptyDict
    /\ combined_data' = [data_type |-> "combined", data_cols |-> <<>>]
    /\ title_combined' = ""
    /\ nd' = 0
    /\ pc' = IF Len(datasets) = 0 THEN "overlap" ELSE "first_loop"
    /\ UNCHANGED <<args, data_objects, datasets, t_zero, combined_data_keys_0,
                   fn_timecol, i, asked, answer, object_data, result>>

\* A variant of RecordingSpan that takes the tstamp for both ends of the
\* recording: the overlap of C3 depends on the first and last samples.
RecordingSpanOfTstamp(dataset, t_0, c, acc) == [acc EXCEPT !.t_s = t_0, !.t_f = t_0]

\* Lines 169-179: the columns of one dataset, from place c on.  acc holds t_s,
\* t_f and whether an IndexError was caught (an empty time column).
RECURSIVE RecordingSpan(_, _, _, _)
RecordingSpan(dataset, t_0, c, acc) ==
    IF c > Len(dataset.data_cols) THEN acc
    ELSE LET col == dataset.data_cols[c] IN
         IF ~is_time(col) THEN RecordingSpan(dataset, t_0, c + 1, acc)
         ELSE IF Len(dataset[col]) = 0
              THEN RecordingSpan(dataset, t_0, c + 1, [acc EXCEPT !.caught = TRUE])
              ELSE RecordingSpan(dataset, t_0, c + 1,
                       [acc EXCEPT !.t_s = Min(acc.t_s, t_0 + dataset[col][1]),
                                   !.t_f = Max(acc.t_f, t_0 + dataset[col][Len(dataset[col])])])

\* Lines 143-147
TitleWith(title, dataset, n, count) ==
    (IF Len(title) > 0
     THEN title \o ", " \o (IF n = count - 1 THEN "and " ELSE "")
     ELSE title)
    \o "(" \o dataset.title \o ") as " \o ToString(n)

\* int() of a digit and of two digits
DigitValue(c) ==
    CASE c = "0" -> 0 [] c = "1" -> 1 [] c = "2" -> 2 [] c = "3" -> 3 [] c = "4" -> 4
      [] c = "5" -> 5 [] c = "6" -> 6 [] c = "7" -> 7 [] c = "8" -> 8 [] c = "9" -> 9

TwoDigitValue(s) == 10 * DigitValue(CharAt(s, 1)) + DigitValue(CharAt(s, 2))

\* Lines 624-632: seconds since midnight of 'hh:mm:ss'
timestamp_to_seconds(timestamp) ==
    60 * 60 * TwoDigitValue(SubSeq(timestamp, 1, 2))
    + 60 * TwoDigitValue(SubSeq(timestamp, 4, 5))
    + TwoDigitValue(SubSeq(timestamp, 7, 8))

\* Data_Importing.timestamp_to_epoch_time: the epoch time of the time of day
\* 'hh:mm:ss' on the date 'mm/dd/yyyy', for the days of January 1970 in UTC
timestamp_to_epoch_time(timestamp, date) ==
    86400 * (TwoDigitValue(SubSeq(date, 4, 5)) - 1) + timestamp_to_seconds(timestamp)

\* Lines 151-161: dataset['tstamp'], or on KeyError the epoch time of the
\* dataset's date and timestamp
TstampOrDated(dataset) ==
    IF "tstamp" \in DOMAIN dataset THEN dataset.tstamp
    ELSE timestamp_to_epoch_time(dataset.timestamp, dataset.date)

\* Lines 134-188: one pass of the first loop, for the dataset at index nd
FirstLoop ==
    /\ pc = "first_loop"
    /\ UNCHANGED notsync
    /\ nd < Len(datasets)
    /\ LET dataset == DictSet(datasets[nd + 1], "combining_number", nd)
           t_0 == TstampOrDated(dataset)
           span == RecordingSpan(dataset, t_0, 1, [t_s |-> Now, t_f |-> 0, caught |-> FALSE])
       IN /\ datasets' = [datasets EXCEPT ![nd + 1] = dataset]
          /\ IF Len(dataset.data_cols) = 0
             THEN /\ hasdata' = DictSet(hasdata, nd, FALSE)
                  /\ recstarts' = Append(recstarts, Now)
                  /\ UNCHANGED <<title_combined, t_first, t_last, t_start, t_finish>>
             ELSE /\ title_combined' = TitleWith(title_combined, dataset, nd, Len(datasets))
                  /\ IF span.caught
                     THEN /\ hasdata' = DictSet(hasdata, nd, FALSE)
                          /\ UNCHANGED <<recstarts, t_first, t_last, t_start, t_finish>>
                     ELSE /\ hasdata' = DictSet(hasdata, nd, TRUE)
                          /\ recstarts' = Append(recstarts, span.t_s)
                          /\ t_first' = Min(t_first, t_0)
                          /\ t_last' = Max(t_last, t_0)
                          /\ t_start' = Max(t_start, span.t_s)
                          /\ t_finish' = Min(t_finish, span.t_f)
    /\ nd' = nd + 1
    /\ pc' = IF nd + 1 = Len(datasets) THEN "overlap" ELSE "first_loop"
    /\ UNCHANGED <<args, data_objects, append, override, t_zero, combined_data,
                   combined_data_keys_0, fn_timecol, i, asked, answer, object_data,
                   result>>

\* Data_Importing.epoch_time_to_timestamp: the time of day hh:mm:ss of an
\* epoch time
TwoDigits(n) == IF n < 10 THEN "0" \o ToString(n) ELSE ToString(n)

epoch_time_to_timestamp(t) ==
    LET sec == t % 86400 IN
    TwoDigits(sec \div 3600) \o ":" \o TwoDigits((sec % 3600) \div 60)
        \o ":" \o TwoDigits(sec % 60)

\* A variant of ResolveTZero that takes the last tstamp for every named
\* policy: the tstamp of C5 depends on the policy.
ResolveTZeroLast(tz, start, first, last, finish) ==
    IF tz.policy = "number" THEN tz.at ELSE last

\* Lines 210-217
ResolveTZero(tz, start, first, last, finish) ==
    IF tz.policy = "start" THEN start
    ELSE IF tz.policy = "first" THEN first
    ELSE IF tz.policy = "last" THEN last
    ELSE IF tz.policy = "finish" THEN finish
    ELSE tz.at

\* Line 240
N_notempty == Cardinality({n \in DOMAIN hasdata : hasdata[n]})

\* A variant of OnlyDataset that returns the first dataset of the list: the
\* shortcut of C4 depends on picking the dataset that has data.
OnlyDatasetFirst == datasets[1]

\* Line 247: the first dataset, in the order of hasdata's keys, that has data
OnlyDataset ==
    LET n == CHOOSE n \in DOMAIN hasdata :
                 hasdata[n] /\ \A m \in DOMAIN hasdata : hasdata[m] => n <= m
    IN datasets[n + 1]

\* Lines 221-237
WithOverlapFields(cd, tz) ==
    [title |-> title_combined,
     tspan_0 |-> <<t_start, t_finish>>,
     tspan_1 |-> <<t_start - t_first, t_finish - t_first>>,
     tspan |-> <<t_start - tz, t_finish - tz>>,
     tspan_2 |-> <<t_start - tz, t_finish - tz>>,
     tstamp |-> tz,
     timestamp |-> epoch_time_to_timestamp(tz),
     first |-> t_first - tz,
     last |-> t_last - tz,
     start |-> t_start - tz,
     finish |-> t_finish - tz] @@ cd

\* Lines 206-249: the overlap check, with offerquit's answer yn when it is
\* asked; the time origin; the cases of no or one dataset with data.
FixOrigin(yn) ==
    /\ pc = "overlap"
    /\ UNCHANGED notsync
    /\ LET quit == t_start > t_finish /\ ~override
           tz == ResolveTZero(args.t_zero, t_start, t_first, t_last, t_finish)
       IN /\ asked' = IF quit THEN asked + 1 ELSE asked
          /\ answer' = IF quit THEN yn ELSE answer
          /\ IF quit /\ yn = "n"
             THEN /\ pc' = "aborted"
                  /\ UNCHANGED <<t_zero, combined_data, result>>
             ELSE /\ t_zero' = tz
                  /\ IF N_notempty = 1
                     THEN /\ combined_data' = OnlyDataset
                          /\ result' = OnlyDataset
                          /\ pc' = "done"
                     ELSE /\ combined_data' = WithOverlapFields(combined_data, tz)
                          /\ pc' = "sort"
                          /\ UNCHANGED result
    /\ UNCHANGED <<args, data_objects, datasets, append, override, recstarts, t_start,
                   t_finish, t_first, t_last, hasdata, title_combined,
                   combined_data_keys_0, fn_timecol, nd, i, object_data>>

\* A variant of ArgSorts that leaves the datasets in the order handed in: the
\* order of the rows of C16 depends on the sort.
ArgSortsAsGiven(values) == {[k \in 1..Len(values) |-> k]}

\* np.argsort(recstarts): an order of the indices that sorts the values.  The
\* default kind is not a stable sort, so equal values come in either order.
ArgSorts(values) ==
    {p \in [1..Len(values) -> 1..Len(values)] :
        /\ \A a, b \in 1..Len(values) : a # b => p[a] # p[b]
        /\ \A a, b \in 1..Len(values) : a < b => values[p[a]] <= values[p[b]]}

\* Lines 251-263: the datasets in the order of their recording starts, the
\* empty 'file number' column, and the keys that metadata may not overwrite.
SortDatasets ==
    /\ pc = "sort"
    /\ UNCHANGED notsync
    /\ \E I_sort \in ArgSorts(recstarts) :
          LET sorted == [k \in 1..Len(recstarts) |-> datasets[I_sort[k]]]
              numbered == append /\ args.file_number_type
                              \in {sorted[k].data_type : k \in DOMAIN sorted}
              cd == IF numbered THEN DictSet(combined_data, "file number", <<>>)
                    ELSE combined_data
          IN /\ datasets' = sorted
             /\ combined_data' = cd
             /\ fn_timecol' = IF numbered THEN get_timecol_of_type(args.file_number_type)
                              ELSE fn_timecol
             /\ combined_data_keys_0' = DOMAIN cd
    /\ i' = 0
    /\ pc' = IF Len(recstarts) = 0 THEN "post" ELSE "second_loop"
    /\ UNCHANGED <<args, data_objects, append, override, recstarts, t_start, t_finish,
                   t_first, t_last, hasdata, title_combined, t_zero, nd, asked, answer,
                   object_data, result>>

-----------------------------------------------------------------------------
(* The second loop *)

Zeros(n) == [k \in 1..n |-> 0]

\* A variant of Shifted that leaves the times on the dataset's own clock: the
\* offsets of C2 depend on the shift.
Unshifted(t, offset) == t

\* t + offset on an array
Shifted(t, offset) == [k \in DOMAIN t |-> t[k] + offset]

\* data[mask] for a boolean mask of the same length
RECURSIVE Masked(_, _)
Masked(data, mask) ==
    IF Len(data) = 0 THEN <<>>
    ELSE IF mask[1] THEN <<data[1]>> \o Masked(Tail(data), Tail(mask))
    ELSE Masked(Tail(data), Tail(mask))

\* Line 298-299: the mask of one time column
OverlapMask(t, t_0, cut_buffer) ==
    [k \in DOMAIN t |-> (t_start - t_0 - cut_buffer) < t[k]
                         /\ t[k] < (t_finish - t_0 + cut_buffer)]

\* Lines 291-299: a mask for each time column of the dataset
Masks(dataset, t_0, cut_buffer) ==
    [col \in {c \in Range(dataset.data_cols) : is_time(c)} |->
        OverlapMask(dataset[col], t_0, cut_buffer)]

\* Lines 314-317: the length each time column of the dataset will add
CollengthOf(dataset) ==
    [col \in {c \in Range(dataset.data_cols) : is_time(c)} |-> Len(dataset[col])]

\* Lines 310-319: the length of each time column already in combined_data,
\* 0 for those only the dataset has
OldcollengthOf(cd, dataset) ==
    [col \in {c \in Range(cd.data_cols) \cup Range(dataset.data_cols) : is_time(c)} |->
        IF col \in Range(cd.data_cols) THEN Len(cd[col]) ELSE 0]

\* list.remove(x): without the first x
RECURSIVE Removed(_, _)
Removed(list, x) ==
    IF Len(list) = 0 THEN <<>>
    ELSE IF list[1] = x THEN Tail(list)
    ELSE <<list[1]>> \o Removed(Tail(list), x)

\* A variant of Appended that joins the arrays without the filler: the row
\* alignment of C7 depends on the zeros that stand for a missing column.
AppendedUnfilled(cd, col, data, l0) ==
    (IF col \in DOMAIN cd THEN cd[col] ELSE <<>>) \o data

\* Lines 345-371: data appended to the column col of cd, the old column
\* first filled with zeros up to the length of its time column
Appended(cd, col, data, l0) ==
    LET olddata == IF col \in DOMAIN cd THEN cd[col] ELSE <<>>
        l1 == Len(data) + Len(olddata)
    IN (IF l0 > l1 THEN olddata \o Zeros(l0 - l1) ELSE olddata) \o data

\* Lines 374-376: the name a column is stored under when columns are kept apart
SeparateName(cd, col, n) ==
    IF col \in DOMAIN cd THEN col \o "_" \o ToString(n) ELSE col

\* Lines 379-382
Stored(cd, col, data) ==
    LET cd1 == DictSet(cd, col, data) IN
    IF col \in Range(cd1.data_cols) THEN cd1
    ELSE [cd1 EXCEPT !.data_cols = Append(cd1.data_cols, col)]

\* Lines 332-382: the loop over dataset['data_cols'], from place c on.  The list
\* is the dataset's own: a column removed at line 362 shortens it under the
\* running loop.  st holds combined_data (cd) and the list (data_cols).
RECURSIVE MergeColumns(_, _, _, _, _, _, _, _)
MergeColumns(st, c, dataset, n, offset, masks, oldcollength, collength) ==
    IF c > Len(st.data_cols) THEN st
    ELSE
      LET col == st.data_cols[c]
          timecol == get_timecol(col)
          cut == IF args.cutit /\ timecol \in DOMAIN masks
                 THEN Masked(dataset[col], masks[timecol])
                 ELSE dataset[col]
          data == IF is_time(col) THEN Shifted(cut, offset) ELSE cut
      IN IF append
         THEN IF timecol \in DOMAIN oldcollength /\ timecol \in DOMAIN collength
              THEN MergeColumns(
                       [st EXCEPT !.cd = Stored(st.cd, col,
                           Appended(st.cd, col, data,
                                    oldcollength[timecol] + collength[timecol]))],
                       c + 1, dataset, n, offset, masks, oldcollength, collength)
              ELSE MergeColumns(
                       [st EXCEPT !.data_cols = Removed(st.data_cols, col)],
                       c + 1, dataset, n, offset, masks, oldcollength, collength)
         ELSE MergeColumns(
                  [st EXCEPT !.cd = Stored(st.cd, SeparateName(st.cd, col, n), data)],
                  c + 1, dataset, n, offset, masks, oldcollength, collength)

\* A variant of MergeItem that stores every item at the top level: the fields
\* of C17 depend on combined_data_keys_0 being looked at.
MergeItemOverwriting(cd, key, value, n) ==
    IF key \in Range(cd.data_cols) THEN cd
    ELSE IF CharAt(key, 1) = "_"
    THEN IF key \in DOMAIN cd
         THEN DictSet(cd, key, DictSet(cd[key], n, value))
         ELSE DictSet(cd, key, (n :> value))
    ELSE LET cd1 == DictSet(cd, key, value)
             nested == "_" \o key
         IN IF nested \in DOMAIN cd1
            THEN IF n \in DOMAIN cd1[nested] THEN cd1
                 ELSE DictSet(cd1, nested, DictSet(cd1[nested], n, value))
            ELSE DictSet(cd1, nested, (n :> value))

\* Lines 386-416 for one item (key, value) of the dataset with combining number n
MergeItem(cd, key, value, n) ==
    IF key \in Range(cd.data_cols) THEN cd
    ELSE IF CharAt(key, 1) = "_"
    THEN IF key \in DOMAIN cd
         THEN DictSet(cd, key, DictSet(cd[key], n, value))
         ELSE DictSet(cd, key, (n :> value))
    ELSE LET cd1 == IF key \notin combined_data_keys_0 THEN DictSet(cd, key, value)
                    ELSE cd
             nested == "_" \o key
         IN IF nested \in DOMAIN cd1
            THEN IF n \in DOMAIN cd1[nested] THEN cd1
                 ELSE DictSet(cd1, nested, DictSet(cd1[nested], n, value))
            ELSE DictSet(cd1, nested, (n :> value))

\* A variant of MergeMetadata that keys the nested metadata by i, the place of
\* the dataset in the sorted list: the slots of C18 depend on the combining
\* number.
RECURSIVE MergeMetadataByPlace(_, _, _, _)
MergeMetadataByPlace(cd, dataset, keys, n) ==
    IF keys = {} THEN cd
    ELSE LET key == CHOOSE k \in keys : TRUE
         IN MergeMetadataByPlace(MergeItem(cd, key, dataset[key], i), dataset,
                                 keys \ {key}, n)

\* Lines 385-416: the loop over dataset.items().  The items of a dict have
\* different keys, and items with different keys write different keys of
\* combined_data, but for a pair k and '_'+k, which ends the same in either
\* order: the order of the items does not matter.
RECURSIVE MergeMetadata(_, _, _, _)
MergeMetadata(cd, dataset, keys, n) ==
    IF keys = {} THEN cd
    ELSE LET key == CHOOSE k \in keys : TRUE
         IN MergeMetadata(MergeItem(cd, key, dataset[key], n), dataset,
                          keys \ {key}, n)

\* Lines 324-326: i, the place of the dataset in the sorted list, once for
\* every row of the dataset's fn_timecol
FileNumbered(cd, count, len) ==
    DictSet(cd, "file number", cd["file number"] \o [k \in 1..len |-> count])

\* Lines 270-416: one pass of the second loop, for the dataset at index i of
\* the sorted list
SecondLoop ==
    /\ pc = "second_loop"
    /\ UNCHANGED notsync
    /\ i < Len(datasets)
    /\ LET dataset == datasets[i + 1]
           n == dataset.combining_number
           t_0 == dataset.tstamp
           offset == t_0 - t_zero
           masks == IF args.cutit THEN Masks(dataset, t_0, args.cut_buffer) ELSE EmptyDict
           oldcollength == IF append THEN OldcollengthOf(combined_data, dataset) ELSE EmptyDict
           collength == IF append THEN CollengthOf(dataset) ELSE EmptyDict
           numbering == append /\ dataset.data_type = args.file_number_type
           \* line 287: dataset['tstamp'] raises KeyError; line 325:
           \* collength[fn_timecol] raises KeyError
           keyerror == \/ "tstamp" \notin DOMAIN dataset
                       \/ numbering /\ fn_timecol \notin DOMAIN collength
           cd0 == IF numbering /\ ~keyerror
                  THEN FileNumbered(combined_data, i, collength[fn_timecol])
                  ELSE combined_data
           st == MergeColumns([cd |-> cd0, data_cols |-> dataset.data_cols], 1, dataset,
                              n, offset, masks, oldcollength, collength)
           after == [dataset EXCEPT !.data_cols = st.data_cols]
       IN IF ~hasdata[n]
          THEN /\ pc' = IF i + 1 = Len(datasets) THEN "post" ELSE "second_loop"
               /\ UNCHANGED <<datasets, combined_data>>
          ELSE IF keyerror
          THEN /\ pc' = "raised"
               /\ UNCHANGED <<datasets, combined_data>>
          ELSE /\ pc' = IF i + 1 = Len(datasets) THEN "post" ELSE "second_loop"
               /\ datasets' = [datasets EXCEPT ![i + 1] = after]
               /\ combined_data' = MergeMetadata(st.cd, after, DOMAIN after, n)
    /\ i' = i + 1
    /\ UNCHANGED <<args, data_objects, append, override, recstarts, t_start, t_finish,
                   t_first, t_last, hasdata, title_combined, t_zero,
                   combined_data_keys_0, fn_timecol, nd, asked, answer, object_data,
                   result>>

-----------------------------------------------------------------------------
(* After the second loop *)

\* l0 before the loop of line 422 has assigned it
Unbound == -1

\* A variant of PadColumns that pads nothing: the alignment of C1 depends on
\* the padding of the columns the last dataset lacks.
PadColumnsSkipped(st, c) == st

\* Lines 422-432: the loop over combined_data['data_cols'], from place c on.
\* st holds combined_data (cd), l0 as the last pass left it, and whether line
\* 430 read l0 before any pass had assigned it (an UnboundLocalError).
RECURSIVE PadColumns(_, _)
PadColumns(st, c) ==
    IF st.raised \/ c > Len(st.cd.data_cols) THEN st
    ELSE LET col == st.cd.data_cols[c]
             l1 == Len(st.cd[col])
             timecol == get_timecol(col)
             l0 == IF timecol \in DOMAIN st.cd THEN Len(st.cd[timecol]) ELSE st.l0
         IN IF l0 = Unbound THEN [st EXCEPT !.raised = TRUE]
            ELSE PadColumns(
                     [st EXCEPT !.l0 = l0,
                                !.cd = IF l0 > l1
                                       THEN DictSet(st.cd, col, st.cd[col] \o Zeros(l0 - l1))
                                       ELSE st.cd],
                     c + 1)

\* Lines 435-440
Registered(cd) ==
    LET cd1 == IF "file number" \in DOMAIN cd /\ "file number" \notin Range(cd.data_cols)
               THEN [cd EXCEPT !.data_cols = Append(cd.data_cols, "file number")]
               ELSE cd
    IN IF "time/s" \in DOMAIN cd1 THEN DictSet(cd1, "t_str", "time/s") ELSE cd1

\* Lines 446-449: instance.data = combined_data for every wrapper handed in
Updated(objects, cd) ==
    [j \in DOMAIN objects |->
        IF objects[j].wrapped THEN [objects[j] EXCEPT !.data = cd] ELSE objects[j]]

\* Lines 420-455: the columns the last dataset left short, 'file number' and
\* 't_str', and the return
PostPass ==
    /\ pc = "post"
    /\ UNCHANGED notsync
    /\ LET st == PadColumns([cd |-> combined_data, l0 |-> Unbound, raised |-> FALSE], 1)
       IN IF st.raised
          THEN /\ pc' = "raised"
               /\ UNCHANGED <<combined_data, result, object_data>>
          ELSE /\ pc' = "done"
               /\ combined_data' = Registered(st.cd)
               /\ result' = Registered(st.cd)
               /\ object_data' = IF args.update
                                 THEN Updated(object_data, Registered(st.cd))
                                 ELSE object_data
    /\ UNCHANGED <<args, data_objects, datasets, append, override, recstarts, t_start,
                   t_finish, t_first, t_last, hasdata, title_combined, t_zero,
                   combined_data_keys_0, fn_timecol, nd, i, asked, answer>>

Next ==
    \/ Start
    \/ FirstLoop
    \/ \E yn \in {"y", "n"} : FixOrigin(yn)
    \/ SortDatasets
    \/ SecondLoop
    \/ PostPass

Spec == Init /\ [][Next]_vars

\* A file whose importer left no tstamp, only the date and the time of day:
\* it records from the epoch time 102 on, as Early does
Dated == [date |-> "01/01/1970", timestamp |-> "00:01:42",
          tfirst |-> 0, rows |-> MaxRows]

\* Files as other importers leave them: without tstamp, or with a column
\* whose time column is missing
StrayChoices(j) ==
    {MakeDataset(j, "EC3", Late),
     MakeDataset(j, "EC3", Dated),
     MakeDataset(j, "MS", Dated),
     MakeDataset(j, "ECX", Early)}

RECURSIVE StrayLists(_)
StrayLists(n) ==
    IF n = 0 THEN {<<>>}
    ELSE {Append(l, d) : l \in StrayLists(n - 1), d \in StrayChoices(n)}

InitStray ==
    /\ OneCall
    /\ NameIdle
    /\ WindowIdle
    /\ CutIdle
    /\ CalIdle
    /\ TrigIdle
    /\ pc = "call"
    /\ args \in ArgChoices
    /\ \E n \in 0..MaxDatasets : data_objects \in StrayLists(n)
    /\ datasets = data_objects
    /\ object_data = Objects(data_objects, "none")
    /\ Unassigned

SpecStray == InitStray /\ [][Next]_vars

\* The calls on wrappers: update, append and override in every combination
WrapperArgChoices ==
    [t_zero : {[policy |-> "start", at |-> 0]},
     append : {"None", "True", "False"},
     file_number_type : {"EC"},
     cutit : {FALSE},
     cut_buffer : {1},
     override : {"None", "True", "False"},
     update : BOOLEAN]

\* synchronize is called on a list of which the first or every object is a
\* wrapper
InitWrappers ==
    /\ OneCall
    /\ NameIdle
    /\ WindowIdle
    /\ CutIdle
    /\ CalIdle
    /\ TrigIdle
    /\ pc = "call"
    /\ args \in WrapperArgChoices
    /\ \E n \in 0..MaxDatasets : data_objects \in DatasetLists(n)
    /\ datasets = data_objects
    /\ \E wrappers \in {"first", "all"} : object_data = Objects(data_objects, wrappers)
    /\ Unassigned

SpecWrappers == InitWrappers /\ [][Next]_vars

\* A third file, recorded after the others: 106..107 in epoch time
Later == [tstamp |-> 101, tfirst |-> 5, rows |-> MaxRows]

\* Lists of two or more files with data, no two recorded from the same
\* instant on
RECURSIVE RecordedLists(_)
RecordedLists(n) ==
    IF n = 0 THEN {<<>>}
    ELSE {Append(l, MakeDataset(n, layout, rec)) :
             l \in RecordedLists(n - 1),
             layout \in {"EC3", "EC2", "MS"},
             rec \in {Late, Early, Later}}

StartsDiffer(list) ==
    \A a, b \in DOMAIN list :
        a # b => list[a].tstamp + list[a][get_timecol_of_type(list[a].data_type)][1]
                   # list[b].tstamp + list[b][get_timecol_of_type(list[b].data_type)][1]

\* The calls that append
AppendArgChoices ==
    [t_zero : {[policy |-> "start", at |-> 0], [policy |-> "first", at |-> 0]},
     append : {"None", "True"},
     file_number_type : {"EC"},
     cutit : BOOLEAN,
     cut_buffer : {1},
     override : {"None"},
     update : {TRUE}]

InitAgain ==
    /\ NameIdle
    /\ WindowIdle
    /\ CutIdle
    /\ CalIdle
    /\ TrigIdle
    /\ run = 1
    /\ first_objects = <<>>
    /\ first_result = EmptyDict
    /\ pc = "call"
    /\ args \in AppendArgChoices
    /\ \E n \in 2..MaxDatasets :
          data_objects \in {l \in RecordedLists(n) : StartsDiffer(l)}
    /\ datasets = data_objects
    /\ object_data = Objects(data_objects, "none")
    /\ Unassigned

\* The first call has returned: synchronize is called with the same arguments
\* on the same datasets in another order
CallAgain ==
    /\ run = 1
    /\ pc = "done"
    /\ \E p \in Permutations(DOMAIN data_objects) :
          /\ \E k \in DOMAIN data_objects : p[k] # k
          /\ data_objects' = [k \in DOMAIN data_objects |-> data_objects[p[k]]]
    /\ datasets' = data_objects'
    /\ object_data' = Objects(data_objects', "none")
    /\ run' = 2
    /\ first_objects' = data_objects
    /\ first_result' = result
    /\ pc' = "call"
    /\ append' = FALSE
    /\ override' = FALSE
    /\ recstarts' = <<>>
    /\ t_start' = 0
    /\ t_finish' = 0
    /\ t_first' = 0
    /\ t_last' = 0
    /\ hasdata' = EmptyDict
    /\ title_combined' = ""
    /\ t_zero' = 0
    /\ combined_data' = EmptyDict
    /\ combined_data_keys_0' = {}
    /\ fn_timecol' = "unbound"
    /\ nd' = 0
    /\ i' = 0
    /\ asked' = 0
    /\ answer' = ""
    /\ result' = EmptyDict
    /\ UNCHANGED <<args, cutvars, calvars, trigvars, namevars, windowvars>>

NextAgain ==
    \/ Next
    \/ CallAgain

SpecAgain == InitAgain /\ [][NextAgain]_vars

-----------------------------------------------------------------------------
(* timeshift and cut_dataset *)

\* A variant of timeshift that takes the start of tspan as t0 when t_zero is
\* None: the idempotence of C6 depends on None shifting nothing.
timeshift_to_start(dataset, tz) ==
    LET t0 == IF tz.policy = "number" THEN tz.at ELSE dataset.tspan[1]
    IN [col \in DOMAIN dataset |->
           IF col \in Range(dataset.data_cols) /\ is_time(col)
           THEN Shifted(dataset[col], -t0)
           ELSE IF col = "tspan"
           THEN <<dataset.tspan[1] - t0, dataset.tspan[Len(dataset.tspan)] - t0>>
           ELSE dataset[col]]

\* Lines 486-499
timeshift(dataset, tz) ==
    LET t0 == IF tz.policy = "None" THEN 0
              ELSE IF tz.policy = "start" THEN dataset.tspan[1]
              ELSE tz.at
    IN [col \in DOMAIN dataset |->
           IF col \in Range(dataset.data_cols) /\ is_time(col)
           THEN Shifted(dataset[col], -t0)
           ELSE IF col = "tspan"
           THEN <<dataset.tspan[1] - t0, dataset.tspan[Len(dataset.tspan)] - t0>>
           ELSE dataset[col]]

\* Line 523: tspan[0] < t and t < tspan[-1], on an array
WindowMask(t, tspan) ==
    [k \in DOMAIN t |-> tspan[1] < t[k] /\ t[k] < tspan[Len(tspan)]]

\* Lines 515-526: the loop over dataset['data_cols'], from place c on.  st
\* holds the copy being cut (dataset), time_masks and whether a column raised:
\* a KeyError at line 522 when the dataset has no column named as the time
\* column, an IndexError at line 526 when the mask has another length than
\* the column.
RECURSIVE CutColumns(_, _, _)
CutColumns(st, c, tspan) ==
    IF st.raised \/ c > Len(st.dataset.data_cols) THEN st
    ELSE LET col == st.dataset.data_cols[c]
             timecol == get_timecol(col)
             cached == timecol \in DOMAIN st.time_masks
         IN IF ~cached /\ timecol \notin DOMAIN st.dataset
            THEN [st EXCEPT !.raised = TRUE]
            ELSE LET mask == IF cached THEN st.time_masks[timecol]
                             ELSE WindowMask(st.dataset[timecol], tspan)
                 IN IF Len(mask) # Len(st.dataset[col])
                    THEN [st EXCEPT !.raised = TRUE]
                    ELSE CutColumns(
                             [st EXCEPT !.time_masks = DictSet(st.time_masks, timecol, mask),
                                        !.dataset = DictSet(st.dataset, col,
                                                            Masked(st.dataset[col], mask))],
                             c + 1, tspan)

\* Lines 502-532: what the call returns (dataset), or that it raised
cut_dataset(dataset_0, tspan, tz) ==
    IF tspan.is_None THEN [raised |-> FALSE, dataset |-> dataset_0]
    ELSE LET st == CutColumns([dataset |-> dataset_0, time_masks |-> EmptyDict,
                               raised |-> FALSE], 1, tspan.span)
         IN IF st.raised THEN [raised |-> TRUE, dataset |-> dataset_0]
            ELSE [raised |-> FALSE,
                  dataset |-> timeshift(DictSet(st.dataset, "tspan", tspan.span), tz)]

\* No call of synchronize
SyncIdle ==
    /\ pc = "idle"
    /\ args = EmptyDict
    /\ data_objects = <<>>
    /\ datasets = <<>>
    /\ object_data = <<>>
    /\ Unassigned

\* The ends of the windows the calls are given
WindowEnds == -1 .. 5

\* tspan: None, or a window
TspanChoices ==
    {[is_None |-> TRUE, span |-> <<>>]}
    \cup {[is_None |-> FALSE, span |-> <<a, b>>] : a \in WindowEnds, b \in WindowEnds}

\* t_zero of cut_dataset: None (the default), 'start' or a number
CutTZeroChoices ==
    {[policy |-> "None", at |-> 0], [policy |-> "start", at |-> 0],
     [policy |-> "number", at |-> 2]}

\* cut_dataset is called on a dataset
InitCut ==
    /\ OneCall
    /\ NameIdle
    /\ WindowIdle
    /\ SyncIdle
    /\ CalIdle
    /\ TrigIdle
    /\ cut_pc = "call"
    /\ cut_args \in [dataset_0 : DatasetChoices(1),
                     tspan : TspanChoices,
                     t_zero : CutTZeroChoices]
    /\ cut_first = EmptyDict
    /\ cut_second = EmptyDict

\* cut_dataset(dataset_0, tspan, t_zero)
CutDataset ==
    /\ cut_pc = "call"
    /\ LET r == cut_dataset(cut_args.dataset_0, cut_args.tspan, cut_args.t_zero)
       IN /\ cut_pc' = IF r.raised THEN "raised" ELSE "once"
          /\ cut_first' = IF r.raised THEN cut_first ELSE r.dataset
    /\ UNCHANGED <<cut_args, cut_second>>
    /\ UNCHANGED notcut

\* cut_dataset(cut_dataset(dataset_0, tspan, t_zero), tspan, t_zero)
CutDatasetAgain ==
    /\ cut_pc = "once"
    /\ LET r == cut_dataset(cut_first, cut_args.tspan, cut_args.t_zero)
       IN /\ cut_pc' = IF r.raised THEN "raised" ELSE "twice"
          /\ cut_second' = IF r.raised THEN cut_second ELSE r.dataset
    /\ UNCHANGED <<cut_args, cut_first>>
    /\ UNCHANGED notcut

NextCut == CutDataset \/ CutDatasetAgain

SpecCut == InitCut /\ [][NextCut]_vars

-----------------------------------------------------------------------------
(* time_cal *)

\* t[index] on an array: a negative index counts from the end
InIndexRange(t, index) == -Len(t) <= index /\ index < Len(t)
AtIndex(t, index) == IF index >= 0 THEN t[index + 1] ELSE t[Len(t) + index + 1]

\* Lines 784-793: the time a point gives on one side (0 = data, 1 = ref_data),
\* or that it raised the IndexError or TypeError that line 791 catches: an index
\* outside the array, an index into the None that stands for the time column
\* when no ref_data is given, a timestamp that is a number.  t is the time
\* column of the side, as [is_None, array].
SyncTime(kind, t, entry) ==
    IF kind = "index"
    THEN IF t.is_None \/ entry.is_str \/ ~InIndexRange(t.array, entry.value)
         THEN [ok |-> FALSE, time |-> 0]
         ELSE [ok |-> TRUE, time |-> AtIndex(t.array, entry.value)]
    ELSE IF kind = "time"
    THEN [ok |-> TRUE, time |-> entry.value]
    ELSE IF entry.is_str
         THEN [ok |-> TRUE, time |-> timestamp_to_seconds(entry.text)]
         ELSE [ok |-> FALSE, time |-> 0]

\* Lines 762-794: t_vecs[:, mask], the times of the points that both sides
\* resolved, as [t, t_ref]
SyncPoints(data, a) ==
    LET pt == [is_None |-> FALSE, array |-> data[a.pseudotimecol]]
        rt == IF a.ref_data.is_None THEN [is_None |-> TRUE, array |-> <<>>]
              ELSE [is_None |-> FALSE, array |-> a.ref_data.dict[a.reftimecol]]
        got(j) == <<SyncTime(a.point_type[1], pt, a.points[j][1]),
                    SyncTime(a.point_type[2], rt, a.points[j][2])>>
        good == SelectSeq([j \in DOMAIN a.points |-> j],
                          LAMBDA j : got(j)[1].ok /\ got(j)[2].ok)
    IN [t |-> [k \in DOMAIN good |-> got(good[k])[1].time],
        t_ref |-> [k \in DOMAIN good |-> got(good[k])[2].time]]

\* np.polyfit(t, t_ref, 1) for two points with different t: the line through
\* them, as [slope, intercept].  The calls followed are those whose line has
\* whole-number coefficients (WholeFit).
polyfit(t, t_ref) ==
    LET slope == IF t[2] > t[1] THEN (t_ref[2] - t_ref[1]) \div (t[2] - t[1])
                 ELSE (t_ref[1] - t_ref[2]) \div (t[1] - t[2])
    IN [slope |-> slope, intercept |-> t_ref[1] - slope * t[1]]

\* A variant of time_cal_offset_0 that takes a missing ref_data for a
\* reference without tstamp: the offset of C11 depends on the tstamp 0 that
\* line 752 gives the reference.
relative_offset_0(data, ref_data) ==
    IF ref_data.is_None \/ "tstamp" \notin DOMAIN ref_data.dict THEN 0
    ELSE ref_data.dict.tstamp - data.tstamp

\* Lines 751-760: offset_0.  Without ref_data (None, 'absolute' or 'epoch') the
\* reference is {reftimecol: None, 'tstamp': 0}.
time_cal_offset_0(data, ref_data) ==
    IF ref_data.is_None THEN 0 - data.tstamp
    ELSE IF "tstamp" \notin DOMAIN ref_data.dict THEN 0
    ELSE ref_data.dict.tstamp - data.tstamp

\* Lines 822-823: `time not in data['data_cols']` tests the module time, which
\* is in no list of column names, so timecol is added at every call
Registering(data_cols, timecol) == Append(data_cols, timecol)

\* Lines 712-827: what the call leaves in data, or that it raised.  a holds
\* ref_data, points, point_type, timecol, pseudotimecol and reftimecol.
time_cal(data, a) ==
    LET ref == a.ref_data
        keyerror == \/ (ref.is_None \/ "tstamp" \in DOMAIN ref.dict)
                       /\ "tstamp" \notin DOMAIN data
                    \/ a.pseudotimecol \notin DOMAIN data
                    \/ ~ref.is_None /\ a.reftimecol \notin DOMAIN ref.dict
        offset_0 == time_cal_offset_0(data, ref)
        t == SyncPoints(data, a).t
        t_ref == SyncPoints(data, a).t_ref
        N_good == Len(t)
        pf == polyfit(t, t_ref)
        calibrated ==
            IF N_good = 1 THEN Shifted(data[a.pseudotimecol], (t_ref[1] - t[1]) + offset_0)
            ELSE [k \in DOMAIN data[a.pseudotimecol] |->
                     pf.slope * data[a.pseudotimecol][k] + pf.intercept + offset_0]
    IN IF keyerror THEN [raised |-> TRUE, data |-> data]
       \* np.polyfit raises TypeError on an empty vector
       ELSE IF N_good = 0 THEN [raised |-> TRUE, data |-> data]
       ELSE [raised |-> FALSE,
             data |-> [DictSet(data, a.timecol, calibrated)
                          EXCEPT !.data_cols = Registering(data.data_cols, a.timecol)]]

\* How many calls of time_cal the model follows
MaxCalls == 2

\* The dataset to calibrate: pseudotime in 'time/s', a second apart
CalData ==
    [title |-> "A", data_type |-> "EC", tstamp |-> 100,
     data_cols |-> <<"time/s", "Ewe/V">>] @@
    ("time/s" :> <<3, 4>> @@ "Ewe/V" :> <<111, 112>>)

\* ref_data: none, a dataset with tstamp, a dataset without
RefChoices ==
    {[is_None |-> TRUE, dict |-> EmptyDict],
     [is_None |-> FALSE, dict |-> [tstamp |-> 102] @@ ("time/s" :> <<10, 20>>)],
     [is_None |-> FALSE, dict |-> ("time/s" :> <<10, 20>>)]}

\* An entry of a point: a number, or a string
Number(n) == [is_str |-> FALSE, value |-> n, text |-> ""]
String(s) == [is_str |-> TRUE, value |-> 0, text |-> s]

\* A point: on the data side 0 or 1 (an index or a time), on the reference
\* side 1, 9 (an index outside the array) or a timestamp
PointChoices ==
    {<<Number(d), r>> : d \in {0, 1}, r \in {Number(1), Number(9), String("00:01:05")}}

\* points: one point, or two with different entries on the data side
PointLists ==
    {<<p>> : p \in PointChoices}
    \cup {l \in PointChoices \X PointChoices : l[1][1] # l[2][1]}

\* The arguments of a call: the time and index point types with numbers, the
\* timestamp type on the reference side with any entries; pseudotimecol left
\* at its default None only with the other arguments at one value
TimeCalArgChoices ==
    {a \in [ref_data : RefChoices,
            points : PointLists,
            point_type : {<<d, r>> : d \in {"time", "index"},
                                     r \in {"time", "index", "timestamp"}},
            timecol : {"t", "time/s"},
            pseudotimecol : {"time/s", "None"},
            reftimecol : {"time/s"}] :
        /\ a.point_type[2] # "timestamp" =>
              \A j \in DOMAIN a.points : ~a.points[j][2].is_str
        /\ a.point_type[2] = "timestamp" => a.point_type[1] = "time" /\ a.timecol = "t"
        /\ a.pseudotimecol = "None" =>
              /\ a.ref_data.is_None
              /\ a.timecol = "t"
              /\ a.point_type = <<"time", "time">>
              /\ a.points = <<<<Number(0), Number(1)>>>>}

\* The calls followed: two points that both resolve lie at different times
\* on the data side, and the line through them has whole-number coefficients
WholeFit(data, a) ==
    (a.pseudotimecol \in DOMAIN data /\ Len(SyncPoints(data, a).t) = 2) =>
        LET t == SyncPoints(data, a).t
            t_ref == SyncPoints(data, a).t_ref
        IN /\ t[1] # t[2]
           /\ (t_ref[2] - t_ref[1]) % (IF t[2] > t[1] THEN t[2] - t[1] ELSE t[1] - t[2]) = 0

InitCal ==
    /\ OneCall
    /\ NameIdle
    /\ WindowIdle
    /\ SyncIdle
    /\ CutIdle
    /\ TrigIdle
    /\ tc_pc = "ready"
    /\ tc_data = CalData
    /\ tc_last = EmptyDict
    /\ tc_calls = 0

\* time_cal(data, ref_data, points, point_type, timecol, pseudotimecol)
TimeCal ==
    /\ tc_pc = "ready"
    /\ tc_calls < MaxCalls
    /\ \E a \in {x \in TimeCalArgChoices : WholeFit(tc_data, x)} :
          LET r == time_cal(tc_data, a)
          IN /\ tc_pc' = IF r.raised THEN "raised" ELSE "ready"
             /\ tc_data' = r.data
             /\ tc_last' = [args |-> a, before |-> tc_data, raised |-> r.raised]
             /\ tc_calls' = IF r.raised THEN tc_calls ELSE tc_calls + 1
    /\ UNCHANGED notcal

NextCal == TimeCal

SpecCal == InitCal /\ [][NextCal]_vars

-----------------------------------------------------------------------------
(* trigger_times and trigger_cal *)

\* Python's None where a column name is expected
None == "None"

\* threshhold=2.5, in tenths
Threshhold == 25

\* Lines 829-841: the times at which y rises above the threshhold, and, with
\* triggergap, those followed by a gap of more than 2 in x
trigger_times(x, y, threshhold, triggergap) ==
    LET trigger_on(k) == 10 * y[k] > threshhold
        trigger_on_down(k) == IF k = 1 THEN FALSE ELSE trigger_on(k - 1)
        x_up(k) == IF k < Len(x) THEN x[k + 1] ELSE x[Len(x)]
        gap_start(k) == x[k] < x_up(k) - 2
        trigger_start ==
            [k \in DOMAIN x |->
                \/ trigger_on(k) /\ ~trigger_on_down(k)
                \/ triggergap /\ gap_start(k)]
    IN Masked(x, trigger_start)

\* Lines 893-912: the names of the uncalibrated and of the calibrated column,
\* from the arguments and from what an earlier call left in data
TriggerNames(data, a) ==
    LET pt_str == IF a.pt_str = None /\ "pt_str" \in DOMAIN data
                  THEN data.pt_str ELSE a.pt_str
        t_str == IF a.t_str = None /\ "t_str" \in DOMAIN data
                 THEN data.t_str ELSE a.t_str
        pseudotimecol ==
            IF a.pseudotimecol # None THEN a.pseudotimecol
            ELSE IF pt_str # None THEN pt_str
            ELSE IF t_str # None THEN t_str
            ELSE "time/s"
    IN IF a.timecol # None
       THEN [pt_str |-> pt_str, t_str |-> t_str,
             pseudotimecol |-> pseudotimecol, timecol |-> a.timecol]
       ELSE IF pseudotimecol = t_str
       THEN [pt_str |-> pt_str, t_str |-> pseudotimecol \o "*",
             pseudotimecol |-> pseudotimecol, timecol |-> pseudotimecol \o "*"]
       ELSE IF t_str # None
       THEN [pt_str |-> pt_str, t_str |-> t_str,
             pseudotimecol |-> pseudotimecol, timecol |-> t_str]
       ELSE [pt_str |-> pt_str, t_str |-> t_str,
             pseudotimecol |-> pseudotimecol, timecol |-> pseudotimecol \o "*"]

\* Lines 914-923: the triggers as an array.  a.triggers is [kind, values] with
\* kind "None", "scalar", "list" or "ndarray".  The test of line 920 compares
\* the value with the types list and tuple, so a list is wrapped like a
\* scalar: it becomes the one row of a two-dimensional array, of length 1
\* whatever it holds.
TriggerArray(data, a) ==
    IF a.triggers.kind = "None"
    THEN [len |-> Len(data.triggers), values |-> data.triggers]
    ELSE IF a.triggers.kind = "ndarray"
    THEN [len |-> Len(a.triggers.values), values |-> a.triggers.values]
    ELSE [len |-> 1, values |-> a.triggers.values]

\* EC.make_selector: the selector column, folded from the file, loop and cycle
\* counters so that it changes where one of them does
make_selector(data) ==
    LET counter(col, k) == IF col \in DOMAIN data THEN data[col][k] ELSE 0
    IN DictSet(data, "selector",
               [k \in DOMAIN data["time/s"] |->
                   100 * counter("file number", k)
                   + 10 * counter("loop number", k)
                   + counter("cycle number", k)])

\* Line 944: triggers strictly inside (pt[0] - edge, pt[-1] + edge); the mask
\* flattens a two-dimensional array
TriggersInRange(values, pt, edge) ==
    SelectSeq(values, LAMBDA trigger : pt[1] - edge < trigger
                                       /\ trigger < pt[Len(pt)] + edge)

\* Lines 967-971: the pseudotimes at which shiftvalue changes; the first
\* sample counts as a change
ShiftTimes(shiftvalue, pt) ==
    Masked(pt, [k \in DOMAIN pt |->
                   IF k = 1 THEN TRUE ELSE shiftvalue[k] # shiftvalue[k - 1]])

Abs(n) == IF n < 0 THEN 0 - n ELSE n

\* np.argmin(abs(shifttimes - trigger)): the first index of the least error
Nearest(shifttimes, trigger) ==
    CHOOSE index \in DOMAIN shifttimes :
        /\ \A k \in DOMAIN shifttimes :
               Abs(shifttimes[index] - trigger) <= Abs(shifttimes[k] - trigger)
        /\ \A k \in 1..(index - 1) :
               Abs(shifttimes[k] - trigger) > Abs(shifttimes[index] - trigger)

\* Lines 974-995: the loop over the triggers.  A trigger whose nearest shift
\* time is already matched rewrites that entry of pt_points with the same
\* shift time (line 992) and leaves t_points as it is.
RECURSIVE MatchTriggers(_, _, _)
MatchTriggers(triggers, shifttimes, m) ==
    IF Len(triggers) = 0 THEN m
    ELSE LET trigger == Head(triggers)
             index == Nearest(shifttimes, trigger)
             pt_point == shifttimes[index]
         IN MatchTriggers(Tail(triggers), shifttimes,
                IF index \in Range(m.pt_indeces)
                THEN [m EXCEPT !.pt_points =
                         [k \in DOMAIN m.pt_points |->
                             IF m.pt_indeces[k] = index THEN pt_point
                             ELSE m.pt_points[k]]]
                ELSE [pt_points |-> Append(m.pt_points, pt_point),
                      pt_indeces |-> Append(m.pt_indeces, index),
                      t_points |-> Append(m.t_points, trigger)])

NoMatches == [pt_points |-> <<>>, pt_indeces |-> <<>>, t_points |-> <<>>]

\* np.interp(x, xp, fp) for xp ascending and xp[1] < x < xp[-1].  The calls
\* followed are those whose interpolated times are whole (Interpolable).
interp(x, xp, fp) ==
    LET j == CHOOSE k \in 1..(Len(xp) - 1) : xp[k] <= x /\ x <= xp[k + 1]
    IN fp[j] + ((x - xp[j]) * (fp[j + 1] - fp[j])) \div (xp[j + 1] - xp[j])

\* Lines 999-1024: the calibrated time.  The three masks are applied in the
\* order start, middle, end.
PiecewiseTime(pt, m) ==
    LET first == m.pt_points[1]
        last == m.pt_points[Len(m.pt_points)]
        startoffset == m.t_points[1] - first
        endoffset == m.t_points[Len(m.t_points)] - last
    IN [k \in DOMAIN pt |->
           IF last <= pt[k] THEN pt[k] + endoffset
           ELSE IF first < pt[k] /\ pt[k] < last
           THEN interp(pt[k], m.pt_points, m.t_points)
           ELSE IF pt[k] <= first THEN pt[k] + startoffset
           ELSE pt[k]]

\* A variant of FirstTrigger that takes the last trigger in range: the shift
\* of C13 depends on which trigger is taken.
LastTrigger(triggers) == triggers[Len(triggers)]

\* Line 962: triggers[0]
FirstTrigger(triggers) == triggers[1]

\* Lines 851-1035: what the call returns and leaves in data, or that it
\* raised (line 925: no column of the name of the uncalibrated time)
trigger_cal(data, a) ==
    LET names == TriggerNames(data, a)
        pseudotimecol == names.pseudotimecol
        timecol == names.timecol
        array == TriggerArray(data, a)
        pt == data[pseudotimecol]
        selected == IF a.shiftcol = "selector" /\ "selector" \notin DOMAIN data
                    THEN make_selector(data) ELSE data
        triggers == TriggersInRange(array.values, pt, a.edge)
        m == MatchTriggers(triggers, ShiftTimes(selected[a.shiftcol], pt), NoMatches)
        added(cols, col, name) == IF col \in Range(cols) THEN cols ELSE Append(cols, name)
    IN IF pseudotimecol \notin DOMAIN data
       THEN [raised |-> TRUE, returned |-> None, data |-> data]
       ELSE IF array.len = 0
       THEN [raised |-> FALSE, returned |-> pseudotimecol, data |-> selected]
       ELSE IF Len(triggers) = 0
       THEN [raised |-> FALSE, returned |-> pseudotimecol,
             data |-> DictSet(selected, "t_str", pseudotimecol)]
       ELSE IF a.shiftcol \notin DOMAIN selected
       THEN [raised |-> FALSE, returned |-> timecol,
             data |-> DictSet(DictSet(DictSet(selected,
                          timecol, Shifted(pt, FirstTrigger(triggers) - pt[1])),
                          "pt_str", pseudotimecol),
                          "t_str", timecol)]
       ELSE [raised |-> FALSE, returned |-> timecol,
             data |-> DictSet(DictSet(DictSet(DictSet(selected,
                          timecol, PiecewiseTime(pt, m)),
                          "t_str", timecol),
                          "pt_str", pseudotimecol),
                          "data_cols",
                          added(added(selected.data_cols, timecol, names.t_str),
                                pseudotimecol, names.pt_str))]

MaxTriggerCalls == 2

\* The counters of an EC file of four samples: one loop, two loops, three
SelectorLayouts == {<<0, 0, 0, 0>>, <<0, 0, 1, 1>>, <<0, 0, 1, 2>>}

\* The trigger signal as the mass spectrometer records it: [x, y]
Signals ==
    {[x |-> <<1, 2, 6, 7>>, y |-> <<0, 5, 5, 0>>],
     [x |-> <<1, 5, 6, 9>>, y |-> <<0, 0, 5, 0>>]}

\* The datasets to calibrate, after get_trigger_times: pseudotime in 'time/s',
\* the triggers of a signal in 'triggers', with or without a selector column
TriggerData ==
    {[title |-> "A", data_type |-> "EC", tstamp |-> 100,
      data_cols |-> <<"time/s", "Ewe/V", "loop number">>,
      triggers |-> trigger_times(s.x, s.y, Threshhold, TRUE)] @@
     ("time/s" :> <<0, 2, 4, 8>> @@ "Ewe/V" :> <<111, 112, 113, 114>>
      @@ "loop number" :> l) @@
     (IF sel THEN "selector" :> l ELSE EmptyDict)
        : l \in SelectorLayouts, s \in Signals, sel \in BOOLEAN}

\* The triggers argument
TriggerChoices ==
    {[kind |-> "None", values |-> <<>>],
     [kind |-> "scalar", values |-> <<5>>],
     [kind |-> "list", values |-> <<>>],
     [kind |-> "list", values |-> <<5, 7>>],
     [kind |-> "ndarray", values |-> <<>>],
     [kind |-> "ndarray", values |-> <<1, 5>>],
     [kind |-> "ndarray", values |-> <<3, 5>>],
     [kind |-> "ndarray", values |-> <<7, 1>>],
     [kind |-> "ndarray", values |-> <<-2, 10>>],
     [kind |-> "ndarray", values |-> <<-2, 1, 20>>]}

\* The arguments of a call: the column names as the defaults leave them, as
\* time_cal names them and as sync_metadata used to
TriggerCalArgChoices ==
    {[triggers |-> tr, shiftcol |-> sh, edge |-> 2,
      pseudotimecol |-> n[1], timecol |-> n[2], pt_str |-> n[3], t_str |-> n[4]]
        : tr \in TriggerChoices,
          sh \in {"selector", "loop number", "marker"},
          n \in {<<None, None, None, None>>,
                 <<"time/s", "t", None, None>>,
                 <<None, None, None, "time/s">>,
                 <<None, None, None, "t">>,
                 <<None, "t", "time/s", None>>}}

\* The calls followed: those that, where they reach np.interp (line 1016),
\* give it ascending pseudotimes and whose interpolated times are whole
Interpolable(data, a) ==
    LET names == TriggerNames(data, a)
        selected == IF a.shiftcol = "selector" /\ "selector" \notin DOMAIN data
                    THEN make_selector(data) ELSE data
    IN (/\ names.pseudotimecol \in DOMAIN data
        /\ a.shiftcol \in DOMAIN selected
        /\ TriggerArray(data, a).len > 0
        /\ Len(TriggersInRange(TriggerArray(data, a).values,
                               data[names.pseudotimecol], a.edge)) > 0)
       =>
       LET pt == data[names.pseudotimecol]
           m == MatchTriggers(TriggersInRange(TriggerArray(data, a).values, pt, a.edge),
                              ShiftTimes(selected[a.shiftcol], pt), NoMatches)
           xp == m.pt_points
           fp == m.t_points
       IN \A k \in DOMAIN pt :
              (xp[1] < pt[k] /\ pt[k] < xp[Len(xp)]) =>
                  /\ \A j \in 1..(Len(xp) - 1) : xp[j] < xp[j + 1]
                  /\ \E j \in 1..(Len(xp) - 1) :
                         /\ xp[j] <= pt[k] /\ pt[k] <= xp[j + 1]
                         /\ ((pt[k] - xp[j]) * (fp[j + 1] - fp[j]))
                                % (xp[j + 1] - xp[j]) = 0

InitTrig ==
    /\ OneCall
    /\ NameIdle
    /\ WindowIdle
    /\ SyncIdle
    /\ CutIdle
    /\ CalIdle
    /\ tg_pc = "ready"
    /\ tg_data \in TriggerData
    /\ tg_last = EmptyDict
    /\ tg_calls = 0

\* A call of trigger_cal on the dataset as the calls before left it
TriggerCal ==
    /\ tg_pc = "ready"
    /\ tg_calls < MaxTriggerCalls
    /\ \E a \in {x \in TriggerCalArgChoices : Interpolable(tg_data, x)} :
        LET r == trigger_cal(tg_data, a)
        IN /\ tg_pc' = IF r.raised THEN "raised" ELSE "ready"
           /\ tg_data' = r.data
           /\ tg_last' = [args |-> a, before |-> tg_data,
                          raised |-> r.raised, returned |-> r.returned]
           /\ tg_calls' = tg_calls + 1
    /\ UNCHANGED nottrig

NextTrig == TriggerCal

SpecTrig == InitTrig /\ [][NextTrig]_vars

-----------------------------------------------------------------------------
(* is_time and get_timecol, asked about a column name *)

MaxSuffix == 11
MaxSuffixes == 2

\* Column names as the importers and trigger_cal give them
PlainNames ==
    {"time/s", "Ewe/V", "I/A", "file number", "time/s*", "Ewe/V*",
     "M4-x", "M4-y", "M32-x", "Tsample-x", "Tsample-y", "t", "counts"}

\* The name with the suffix synchronize gives a column in separate mode
\* (line 374)
Suffixed(col, n) == col \o "_" \o ToString(n)

RECURSIVE NamesWithSuffixes(_)
NamesWithSuffixes(depth) ==
    IF depth = 0 THEN PlainNames
    ELSE NamesWithSuffixes(depth - 1)
         \cup {Suffixed(c, n) : c \in NamesWithSuffixes(depth - 1), n \in 0..MaxSuffix}

InitNames ==
    /\ OneCall
    /\ SyncIdle
    /\ CutIdle
    /\ CalIdle
    /\ TrigIdle
    /\ WindowIdle
    /\ nm_pc = "ready"
    /\ nm_col \in NamesWithSuffixes(MaxSuffixes)
    /\ nm_is_time = "unasked"
    /\ nm_timecol = "unasked"

\* A call is_time(col)
IsTime ==
    /\ nm_pc = "ready"
    /\ nm_is_time = "unasked"
    /\ nm_is_time' = IF is_time(nm_col) THEN "True" ELSE "False"
    /\ UNCHANGED <<nm_pc, nm_col, nm_timecol>>
    /\ UNCHANGED notname

\* A call get_timecol(col)
GetTimecol ==
    /\ nm_pc = "ready"
    /\ nm_timecol = "unasked"
    /\ nm_timecol' = get_timecol(nm_col)
    /\ UNCHANGED <<nm_pc, nm_col, nm_is_time>>
    /\ UNCHANGED notname

NextNames == IsTime \/ GetTimecol

SpecNames == InitNames /\ [][NextNames]_vars

-----------------------------------------------------------------------------
(* cut *)

MaxSamples == 3
MaxSample == 3

\* Lines 459-483: how the call ends, what it returns, and the answers that
\* offerquit read.  yn1 is read when x is empty (line 469), yn2 when the mask
\* holds no True and override_arg, the argument override, is not set (line
\* 477); the message of line 474
\* indexes x[0], an IndexError on an empty array.
cut(x, y, tspan, returnindeces, override_arg, yn1, yn2) ==
    LET mask == WindowMask(x, tspan.ends)
        first == IF Len(x) = 0 THEN <<yn1>> ELSE <<>>
        cutxy == [x |-> Masked(x, mask), y |-> Masked(y, mask)]
                 @@ (IF returnindeces THEN [mask |-> mask] ELSE EmptyDict)
    IN IF tspan.kind = "None"
       THEN [ended |-> "returned", answers |-> <<>>, value |-> [x |-> x, y |-> y]]
       ELSE IF Len(x) = 0 /\ yn1 = "n"
       THEN [ended |-> "aborted", answers |-> first, value |-> EmptyDict]
       ELSE IF (\A k \in DOMAIN mask : ~mask[k]) /\ ~override_arg
       THEN IF Len(x) = 0
            THEN [ended |-> "raised", answers |-> first, value |-> EmptyDict]
            ELSE IF yn2 = "n"
            THEN [ended |-> "aborted", answers |-> Append(first, yn2),
                  value |-> EmptyDict]
            ELSE [ended |-> "returned", answers |-> Append(first, yn2),
                  value |-> cutxy]
       ELSE [ended |-> "returned", answers |-> first, value |-> cutxy]

\* The arrays x of up to MaxSamples samples, each with its paired y
XChoices ==
    UNION {[1..n -> 0..MaxSample] : n \in 0..MaxSamples}

PairedY(x) == [k \in DOMAIN x |-> 100 + k]

\* The window: unset, or its two ends
TspanChoicesOfCut ==
    {[kind |-> "None", ends |-> <<>>]}
    \cup {[kind |-> "list", ends |-> <<a, b>>] :
              a \in {0, 1}, b \in {2, MaxSample + 2}}
    \cup {[kind |-> "list", ends |-> <<MaxSample + 2, MaxSample + 6>>]}

InitWindow ==
    /\ OneCall
    /\ SyncIdle
    /\ CutIdle
    /\ CalIdle
    /\ TrigIdle
    /\ NameIdle
    /\ w_pc = "call"
    /\ \E x \in XChoices :
           w_args \in [x : {x}, y : {PairedY(x)}, tspan : TspanChoicesOfCut,
                       returnindeces : BOOLEAN, override : BOOLEAN]
    /\ w_asked = 0
    /\ w_result = EmptyDict

\* A call of cut, with what offerquit reads when it is reached
Cut ==
    /\ w_pc = "call"
    /\ \E yn1 \in {"y", "n"}, yn2 \in {"y", "n"} :
        LET r == cut(w_args.x, w_args.y, w_args.tspan, w_args.returnindeces,
                     w_args.override, yn1, yn2)
        IN /\ w_pc' = r.ended
           /\ w_asked' = Len(r.answers)
           /\ w_result' = [answers |-> r.answers, value |-> r.value]
    /\ UNCHANGED w_args
    /\ UNCHANGED notwindow

NextWindow == Cut

SpecWindow == InitWindow /\ [][NextWindow]_vars

-----------------------------------------------------------------------------
(* What the properties of synchronize speak of, read off the datasets as they
   were handed in *)

SetMin(S) == CHOOSE x \in S : \A y \in S : x <= y
SetMax(S) == CHOOSE x \in S : \A y \in S : x >= y

TimeColumns(d) == {c \in Range(d.data_cols) : is_time(c)}

\* A dataset with data: it names data columns and none of its time columns
\* is empty
HasData(d) == Len(d.data_cols) > 0 /\ \A c \in TimeColumns(d) : Len(d[c]) > 0

WithData == {j \in DOMAIN data_objects : HasData(data_objects[j])}

\* The data model's invariant: every column has its time column in the
\* dataset, and is as long as it
WellFormed(d) ==
    \A c \in Range(d.data_cols) :
        /\ get_timecol(c) \in TimeColumns(d)
        /\ Len(d[c]) = Len(d[get_timecol(c)])

\* The recording of a dataset in epoch time
RecordingStart(d) == d.tstamp + SetMin({d[c][1] : c \in TimeColumns(d)})
RecordingFinish(d) == d.tstamp + SetMax({d[c][Len(d[c])] : c \in TimeColumns(d)})

\* synchronize has returned the merge of two or more datasets
Merged == pc = "done" /\ Cardinality(WithData) >= 2

\* The datasets the second loop merged, in the order it merged them
MergedDatasets == SelectSeq(datasets, LAMBDA d : hasdata[d.combining_number])

\* The dataset as it was handed in
Original(d) == data_objects[d.combining_number + 1]

\* col is as long as the time column get_timecol gives it
AlignedLength(cd, col) ==
    /\ get_timecol(col) \in DOMAIN cd
    /\ Len(cd[col]) = Len(cd[get_timecol(col)])

-----------------------------------------------------------------------------
(* C1 *)

AppendOfWellFormed ==
    /\ Merged
    /\ append
    /\ \A j \in WithData : WellFormed(data_objects[j])

\* C1 as stated: after an append-mode synchronize of two or more well-formed
\* datasets with data, every column named in the result's data_cols is as
\* long as the column get_timecol resolves for it.
C1_AllColumnsAligned ==
    AppendOfWellFormed =>
        \A col \in Range(result.data_cols) : AlignedLength(result, col)

\* C1, amended: the same for every column of data_cols but 'file number',
\* which follows the time column of file_number_type, not the one
\* get_timecol gives its name.
C1_MergedColumnsAligned ==
    AppendOfWellFormed =>
        \A col \in Range(result.data_cols) \ {"file number"} : AlignedLength(result, col)

\* A merge in which the last dataset merged lacks a column an earlier one has
C1_Witness ==
    /\ AppendOfWellFormed
    /\ "I/A" \in Range(result.data_cols)
    /\ "I/A" \notin Range(MergedDatasets[Len(MergedDatasets)].data_cols)
    /\ "time/s" \in Range(MergedDatasets[Len(MergedDatasets)].data_cols)
    /\ Len(result["I/A"]) > MaxRows

-----------------------------------------------------------------------------
(* C2 *)

\* The truncation window of cutit, on the clock of dataset d
InWindow(d, t) ==
    /\ t_start - d.tstamp - args.cut_buffer < t
    /\ t < t_finish - d.tstamp + args.cut_buffer

\* The samples of the time column col of d that a merge keeps
KeptTimes(d, col) ==
    IF args.cutit THEN SelectSeq(d[col], LAMBDA t : InWindow(d, t)) ELSE d[col]

\* The last n entries of an array
LastEntries(a, n) == SubSeq(a, Len(a) - n + 1, Len(a))

\* The second loop merges the dataset at index i
MergesDataset ==
    /\ pc = "second_loop"
    /\ pc' # "raised"
    /\ hasdata[datasets[i + 1].combining_number]

\* C2: when a dataset D is merged, every sample t of a time column of D is
\* stored in the combined time column (the column of that name when
\* appending, and when kept apart the column of that name or, if the name was
\* taken, of that name suffixed) as t + (D.tstamp - t_zero), t_zero being the
\* tstamp of the combined dataset, which is the tstamp of the result.
C2_OffsetCorrectness ==
    [][/\ MergesDataset =>
            LET D == datasets[i + 1] IN
            \A col \in TimeColumns(D) :
                LET kept == KeptTimes(D, col)
                    name == IF append \/ col \notin DOMAIN combined_data THEN col
                            ELSE col \o "_" \o ToString(D.combining_number)
                IN /\ name \in DOMAIN combined_data'
                   /\ Len(combined_data'[name]) >= Len(kept)
                   /\ LastEntries(combined_data'[name], Len(kept))
                        = [k \in 1..Len(kept) |->
                              kept[k] + (D.tstamp - combined_data'.tstamp)]
       /\ pc \in {"sort", "second_loop", "post"} =>
            combined_data'.tstamp = t_zero /\ combined_data.tstamp = t_zero
      ]_vars

\* Two datasets with different tstamps were merged with t_zero = 'start': the
\* earlier samples lie before t = 0
C2_Witness ==
    /\ Merged
    /\ args.t_zero.policy = "start"
    /\ \E j \in WithData : data_objects[j].tstamp # result.tstamp
    /\ "time/s" \in DOMAIN result
    /\ \E k \in DOMAIN result["time/s"] : result["time/s"][k] < 0

-----------------------------------------------------------------------------
(* C3 *)

OverlapStart == SetMax({RecordingStart(data_objects[j]) : j \in WithData})
OverlapFinish == SetMin({RecordingFinish(data_objects[j]) : j \in WithData})

\* C3: once the first loop is through a list with at least one dataset with
\* data, the overlap starts at the latest recording start and finishes at
\* the earliest recording finish of the datasets with data, tspan_0 of a
\* combined result records just that, and the overlap is taken to be empty
\* (the caller is asked, unless override is set) exactly when start > finish.
C3_OverlapCorrectness ==
    (pc \notin {"call", "first_loop"} /\ WithData # {}) =>
        /\ t_start = OverlapStart
        /\ t_finish = OverlapFinish
        /\ Merged => result.tspan_0 = <<OverlapStart, OverlapFinish>>
        /\ pc # "overlap" =>
              (asked = 1 <=> (OverlapStart > OverlapFinish /\ ~override))
        /\ asked \in {0, 1}

\* A merge of two recordings that do not overlap, after the caller was asked
C3_Witness ==
    /\ Merged
    /\ result.tspan_0[1] > result.tspan_0[2]
    /\ asked = 1

-----------------------------------------------------------------------------
(* C4 *)

\* C4: when exactly one dataset of the list has data, synchronize returns,
\* and what it returns is that dataset as it was handed in, with the key
\* combining_number added and nothing else changed.
C4_SingleInputShortcut ==
    Cardinality(WithData) = 1 =>
        /\ pc \notin {"aborted", "raised", "sort", "second_loop", "post"}
        /\ pc = "done" =>
              LET j == CHOOSE j \in WithData : TRUE
              IN result = DictSet(data_objects[j], "combining_number", j - 1)

\* The one dataset with data came last of three, with truncation asked for
\* and a number as t_zero
C4_Witness ==
    /\ pc = "done"
    /\ WithData = {3}
    /\ args.cutit
    /\ args.t_zero.policy = "number"
    /\ args.append = "False"

-----------------------------------------------------------------------------
(* C5 *)

\* The instant the time-zero policy selects
PolicyInstant ==
    LET tz == args.t_zero IN
    IF tz.policy = "first" THEN SetMin({data_objects[j].tstamp : j \in WithData})
    ELSE IF tz.policy = "last" THEN SetMax({data_objects[j].tstamp : j \in WithData})
    ELSE IF tz.policy = "start" THEN OverlapStart
    ELSE IF tz.policy = "finish" THEN OverlapFinish
    ELSE tz.at

\* C5 as stated: the tstamp of the returned dataset is the instant the
\* time-zero policy selects.
C5_TstampIsPolicyInstant ==
    (pc = "done" /\ WithData # {}) => result.tstamp = PolicyInstant

\* C5, amended: that holds when two or more datasets have data; when exactly
\* one has, the returned dataset is that dataset and keeps its own tstamp.
C5_TstampOfMerge ==
    /\ Merged => result.tstamp = PolicyInstant
    /\ (pc = "done" /\ Cardinality(WithData) = 1) =>
          \E j \in WithData : result.tstamp = data_objects[j].tstamp

\* A merge with t_zero = 'finish' in which the overlap finishes at an instant
\* that is the tstamp of none of the datasets
C5_Witness ==
    /\ Merged
    /\ args.t_zero.policy = "finish"
    /\ \A j \in WithData : data_objects[j].tstamp # OverlapFinish

-----------------------------------------------------------------------------
(* C6 *)

\* C6: cut to the same window a second time, with t_zero left at None, a
\* dataset comes back with the same data_cols, the same samples in every
\* column and the same tspan as the first cut gave; and a second cut never
\* raises where the first did not.
C6_CutIdempotent ==
    /\ (cut_pc = "twice" /\ cut_args.t_zero.policy = "None") =>
          /\ cut_second.data_cols = cut_first.data_cols
          /\ \A col \in Range(cut_first.data_cols) : cut_second[col] = cut_first[col]
          /\ "tspan" \in DOMAIN cut_first <=> "tspan" \in DOMAIN cut_second
          /\ "tspan" \in DOMAIN cut_first => cut_second.tspan = cut_first.tspan
    /\ (cut_pc = "raised" /\ cut_args.t_zero.policy = "None") =>
          cut_first = EmptyDict

\* A window that does not start at 0 was cut twice, and the first cut
\* dropped a sample and kept another
C6_Witness ==
    /\ cut_pc = "twice"
    /\ cut_args.t_zero.policy = "None"
    /\ ~cut_args.tspan.is_None
    /\ cut_args.tspan.span[1] # 0
    /\ "time/s" \in Range(cut_first.data_cols)
    /\ Len(cut_first["time/s"]) > 0
    /\ Len(cut_first["time/s"]) < Len(cut_args.dataset_0["time/s"])

-----------------------------------------------------------------------------
(* C7 *)

\* What the first k merged datasets give the column col when appended
\* without truncation: of each dataset that has col's time column, the
\* samples of col (on the common clock, if col is a time column), or as many
\* zeros as the dataset has rows if it lacks col.
RECURSIVE RowsOf(_, _)
RowsOf(col, k) ==
    IF k = 0 THEN <<>>
    ELSE LET d == Original(MergedDatasets[k])
             timecol == get_timecol(col)
         IN RowsOf(col, k - 1) \o
            (IF timecol \notin Range(d.data_cols) THEN <<>>
             ELSE IF col \notin Range(d.data_cols) THEN Zeros(Len(d[timecol]))
             ELSE IF is_time(col) THEN Shifted(d[col], d.tstamp - result.tstamp)
             ELSE d[col])

\* C7: appended without truncation, every merged column of the result holds,
\* row for row of its time column, the sample of the source dataset that
\* gave the row, or 0 where that dataset lacked the column, be it the first,
\* a middle or the last dataset merged.
C7_RowsAligned ==
    (AppendOfWellFormed /\ ~args.cutit) =>
        \A col \in Range(result.data_cols) \ {"file number"} :
            result[col] = RowsOf(col, Len(MergedDatasets))

\* Of three datasets merged on time/s, the first and the last lacked I/A
C7_Witness ==
    /\ AppendOfWellFormed
    /\ ~args.cutit
    /\ Len(MergedDatasets) = 3
    /\ \A k \in 1..3 : "time/s" \in Range(MergedDatasets[k].data_cols)
    /\ "I/A" \notin Range(MergedDatasets[1].data_cols)
    /\ "I/A" \in Range(MergedDatasets[2].data_cols)
    /\ "I/A" \notin Range(MergedDatasets[3].data_cols)
    /\ result["I/A"][1] = 0
    /\ result["I/A"][Len(result["I/A"])] = 0

-----------------------------------------------------------------------------
(* C8 *)

\* C8: when columns are kept apart (append false), merging a dataset leaves
\* every column already stored in the combined dataset as it was.
C8_NeverOverwrites ==
    [][(pc = "second_loop" /\ ~append) =>
          \A col \in Range(combined_data.data_cols) :
              /\ col \in DOMAIN combined_data'
              /\ combined_data'[col] = combined_data[col]
      ]_vars

-----------------------------------------------------------------------------
(* C9 *)

\* C9: after appending datasets of which one at least has the data_type
\* file_number_type, the result has a column 'file number' as long as the
\* time column of that data type.
C9_FileNumberLength ==
    (/\ Merged
     /\ append
     /\ \E j \in DOMAIN data_objects : data_objects[j].data_type = args.file_number_type)
    =>
        /\ "file number" \in DOMAIN result
        /\ get_timecol_of_type(args.file_number_type) \in DOMAIN result
        /\ Len(result["file number"])
             = Len(result[get_timecol_of_type(args.file_number_type)])

-----------------------------------------------------------------------------
(* C10 *)

\* The samples of the column col of d whose time lies in the truncation
\* window, on the common clock if col is a time column
Windowed(d, col) ==
    LET timecol == get_timecol(col)
        kept == Masked(d[col], [k \in DOMAIN d[col] |-> InWindow(d, d[timecol][k])])
    IN IF is_time(col) THEN Shifted(kept, d.tstamp - result.tstamp) ELSE kept

\* The columns of the k-th merged dataset stored in the column name of the
\* result: kept apart, a column whose name an earlier dataset has taken is
\* stored under the name suffixed with the combining number
StoredAs(k, name) ==
    LET d == Original(MergedDatasets[k])
        n == MergedDatasets[k].combining_number
        taken(col) == \E m \in 1..(k - 1) :
                          col \in Range(Original(MergedDatasets[m]).data_cols)
    IN {col \in Range(d.data_cols) :
           IF append \/ ~taken(col) THEN name = col
           ELSE name = col \o "_" \o ToString(n)}

\* The samples the first k merged datasets give the column name, windowed
RECURSIVE WindowedRows(_, _)
WindowedRows(name, k) ==
    IF k = 0 THEN <<>>
    ELSE WindowedRows(name, k - 1) \o
         (IF StoredAs(k, name) = {} THEN <<>>
          ELSE Windowed(Original(MergedDatasets[k]),
                        CHOOSE col \in StoredAs(k, name) : TRUE))

\* C10: with cutit, appended or kept apart, every merged column of the
\* result has as many entries as its sources have samples in the truncation
\* window, and no entry that is not one of them.
C10_OnlyWindowedSamples ==
    (/\ Merged
     /\ args.cutit
     /\ \A j \in WithData : WellFormed(data_objects[j]))
    =>
        \A name \in Range(result.data_cols) \ {"file number"} :
            LET rows == WindowedRows(name, Len(MergedDatasets))
            IN /\ Len(result[name]) = Len(rows)
               /\ Range(result[name]) \subseteq Range(rows)

-----------------------------------------------------------------------------
(* What the properties of time_cal speak of *)

\* The last call of time_cal returned
Calibrated == DOMAIN tc_last # {} /\ ~tc_last.raised

\* How many points of the last call both sides resolved
UsablePoints ==
    IF tc_last.args.pseudotimecol \in DOMAIN tc_last.before
    THEN Len(SyncPoints(tc_last.before, tc_last.args).t)
    ELSE 0

\* reftime_at_point - pseudotime_at_point of the first usable point
PointShift ==
    SyncPoints(tc_last.before, tc_last.args).t_ref[1]
    - SyncPoints(tc_last.before, tc_last.args).t[1]

\* The pseudotime before the last call, shifted
ShiftedPseudotime(shift) ==
    Shifted(tc_last.before[tc_last.args.pseudotimecol], shift)

\* ref_data.tstamp - data.tstamp where the reference has a tstamp
TstampDifference == tc_last.args.ref_data.dict.tstamp - tc_last.before.tstamp

-----------------------------------------------------------------------------
(* C11 *)

-----------------------------------------------------------------------------
(* C12 *)

\* C12: when no point of a call is usable, time_cal returns, and the dataset
\* is as it was before the call.
C12_NoUsablePointNoFailure ==
    (/\ DOMAIN tc_last # {}
     /\ tc_last.args.pseudotimecol \in DOMAIN tc_last.before
     /\ UsablePoints = 0)
    =>
        /\ ~tc_last.raised
        /\ tc_pc = "ready"
        /\ tc_data = tc_last.before

-----------------------------------------------------------------------------
(* C20 *)

\* How often a name is listed in a sequence of column names
Occurrences(name, cols) == Cardinality({k \in 1..Len(cols) : cols[k] = name})

\* C20: after any sequence of calls of time_cal, the name of the target time
\* column of the last call is listed exactly once in data_cols.
C20_TargetListedOnce ==
    Calibrated => Occurrences(tc_last.args.timecol, tc_data.data_cols) = 1

-----------------------------------------------------------------------------
(* What the properties of trigger_cal speak of *)

\* A call of trigger_cal has been made on a dataset that holds the
\* uncalibrated time column
TriggerCalled ==
    /\ DOMAIN tg_last # {}
    /\ TriggerNames(tg_last.before, tg_last.args).pseudotimecol \in DOMAIN tg_last.before

\* The uncalibrated time before the last call, and the column the call
\* calibrates into
Pseudotime == tg_last.before[TriggerNames(tg_last.before, tg_last.args).pseudotimecol]
CalibratedName == TriggerNames(tg_last.before, tg_last.args).timecol

\* The triggers the last call was given, in the order given
GivenTriggers == TriggerArray(tg_last.before, tg_last.args).values

\* Those within edge of the pseudotime, the ends included, and those
\* strictly within
WithinEdge ==
    SelectSeq(GivenTriggers,
              LAMBDA x : /\ Pseudotime[1] - tg_last.args.edge <= x
                         /\ x <= Pseudotime[Len(Pseudotime)] + tg_last.args.edge)
StrictlyWithinEdge ==
    SelectSeq(GivenTriggers,
              LAMBDA x : /\ Pseudotime[1] - tg_last.args.edge < x
                         /\ x < Pseudotime[Len(Pseudotime)] + tg_last.args.edge)

\* The calibrated column is the pseudotime shifted by shift
UniformShift(shift) ==
    /\ CalibratedName \in DOMAIN tg_data
    /\ tg_data[CalibratedName] = [k \in DOMAIN Pseudotime |-> Pseudotime[k] + shift]

-----------------------------------------------------------------------------
(* C13 *)

\* C13 as stated: when the dataset has no column of the name shiftcol and at
\* least one trigger lies within edge of the pseudotime, trigger_cal writes
\* calibrated[k] = pseudotime[k] + (first trigger in range - pseudotime[0])
\* for every k, whatever the later triggers.
C13_ShiftToFirstTriggerWithoutShiftcol ==
    (/\ TriggerCalled
     /\ tg_last.args.shiftcol \notin DOMAIN tg_last.before
     /\ Len(WithinEdge) > 0)
    => UniformShift(WithinEdge[1] - Pseudotime[1])

\* C13, amended: the same when shiftcol names a column other than 'selector'
\* that the dataset lacks (a missing 'selector' is built before the triggers
\* are matched), for the triggers strictly within edge of the pseudotime.
C13_ShiftToFirstTriggerWithoutColumn ==
    (/\ TriggerCalled
     /\ tg_last.args.shiftcol \notin DOMAIN tg_last.before
     /\ tg_last.args.shiftcol # "selector"
     /\ Len(StrictlyWithinEdge) > 0)
    => UniformShift(StrictlyWithinEdge[1] - Pseudotime[1])

\* Two triggers in range, the later one given first, and no column 'marker'
C13_Witness ==
    /\ TriggerCalled
    /\ tg_last.args.shiftcol = "marker"
    /\ GivenTriggers = <<7, 1>>
    /\ StrictlyWithinEdge = <<7, 1>>
    /\ tg_last.returned = CalibratedName
    /\ tg_data[CalibratedName] = <<7, 9, 11, 15>>

-----------------------------------------------------------------------------
(* C15 *)

\* C15: when no dataset of the list has data, synchronize returns, and what
\* it returns has data_type 'combined' and an empty data_cols.
C15_EmptyCombinedDataset ==
    WithData = {} =>
        /\ pc \notin {"aborted", "raised"}
        /\ pc = "done" =>
              /\ result.data_type = "combined"
              /\ result.data_cols = <<>>

-----------------------------------------------------------------------------
(* C19 *)

\* For the first k merged datasets, in the order merged, the combining number
\* of each dataset of the data_type file_number_type, once for every sample
\* of its time column of that type
RECURSIVE CombiningNumbers(_)
CombiningNumbers(k) ==
    IF k = 0 THEN <<>>
    ELSE LET d == Original(MergedDatasets[k])
             timecol == get_timecol_of_type(args.file_number_type)
         IN CombiningNumbers(k - 1) \o
            (IF d.data_type = args.file_number_type /\ timecol \in DOMAIN d
             THEN [j \in 1..Len(d[timecol]) |-> MergedDatasets[k].combining_number]
             ELSE <<>>)

\* C19: appended without truncation, every entry of 'file number' is the
\* combining number of the dataset that gave the sample at the same index of
\* the time column of file_number_type.
C19_FileNumberIsCombiningNumber ==
    (/\ Merged
     /\ append
     /\ ~args.cutit
     /\ "file number" \in DOMAIN result)
    => result["file number"] = CombiningNumbers(Len(MergedDatasets))

-----------------------------------------------------------------------------
(* C14 *)

\* override as the caller gave it, or else append as the caller gave it, or
\* else whether all datasets handed in have one data_type
OverrideInForce ==
    IF args.override # "None" THEN args.override = "True"
    ELSE IF args.append # "None" THEN args.append = "True"
    ELSE \A a, b \in DOMAIN data_objects :
             data_objects[a].data_type = data_objects[b].data_type

\* The first loop is over and the overlap has been looked at
PastOverlapCheck == pc \notin {"call", "first_loop", "overlap"}

\* C14: synchronize asks whether to continue exactly when t_start > t_finish
\* and override is not in force, override defaulting to append and append to
\* whether all datasets have one data_type; when the answer is to quit the
\* call ends with no dataset returned and the attribute data of every wrapper
\* as it was, and on any other answer it goes on.
C14_ConfirmOrAbort ==
    /\ ~PastOverlapCheck => asked = 0
    /\ PastOverlapCheck =>
          /\ asked = (IF t_start > t_finish /\ ~OverrideInForce THEN 1 ELSE 0)
          /\ pc = "aborted" <=> (asked = 1 /\ answer = "n")
    /\ pc = "aborted" =>
          /\ result = EmptyDict
          /\ \A j \in DOMAIN object_data : object_data[j].data = data_objects[j]

\* Wrappers of datasets of two data types that do not overlap, handed in with
\* the defaults, and the answer was to quit
C14_Witness ==
    /\ pc = "aborted"
    /\ args.override = "None"
    /\ args.append = "None"
    /\ args.update
    /\ Len(object_data) >= 2
    /\ \A j \in DOMAIN object_data : object_data[j].wrapped
    /\ t_start > t_finish

-----------------------------------------------------------------------------
(* C17 *)

\* The fields set between the loops whose value is a number, a string or a
\* pair
FixedFields ==
    {"data_type", "title", "tspan", "tspan_0", "tspan_1", "tstamp", "timestamp",
     "first", "last", "start", "finish"}

IsPrefix(s, t) == Len(s) <= Len(t) /\ SubSeq(t, 1, Len(s)) = s

-----------------------------------------------------------------------------
(* C18 *)

\* The metadata fields of a merged dataset that C18 speaks of: not the name
\* of a data column, and not nested already
PlainFields(d) ==
    {key \in DOMAIN d :
        /\ key \notin Range(d.data_cols)
        /\ key \notin Range(result.data_cols)
        /\ CharAt(key, 1) # "_"}

\* C18: of every merged dataset, with combining number nd, and every
\* metadata field k of it that is no data column and does not start with
\* '_', the result holds at ['_'+k][nd] the value of the dataset's field
\* '_'+k if it has one, and of its field k otherwise.
C18_MetadataNestedByCombiningNumber ==
    Merged =>
        \A m \in DOMAIN MergedDatasets :
            LET d == MergedDatasets[m]
                number == d.combining_number
            IN \A key \in PlainFields(d) :
                   LET nested == "_" \o key IN
                   /\ nested \in DOMAIN result
                   /\ number \in DOMAIN result[nested]
                   /\ result[nested][number]
                        = IF nested \in DOMAIN d THEN d[nested] ELSE d[key]

\* The dataset merged first was handed in last, and has a field '_title'
\* besides its title
C18_Witness ==
    /\ Merged
    /\ Len(MergedDatasets) = 3
    /\ MergedDatasets[1].combining_number = 2
    /\ "_title" \in DOMAIN MergedDatasets[1]
    /\ result["_title"][2] = MergedDatasets[1]["_title"]
    /\ result["_tstamp"][2] = MergedDatasets[1].tstamp
    /\ result["_title"][0] = MergedDatasets[2].title

-----------------------------------------------------------------------------
(* C16 *)

\* Every dataset handed in has data, and no two start recording at the same
\* instant
StartsDistinct ==
    /\ WithData = DOMAIN data_objects
    /\ \A a, b \in DOMAIN data_objects :
           a # b => RecordingStart(data_objects[a]) # RecordingStart(data_objects[b])

\* The places of the list handed in, by ascending start of recording
ByRecordingStart ==
    CHOOSE p \in Permutations(DOMAIN data_objects) :
        \A a, b \in DOMAIN data_objects :
            a < b => RecordingStart(data_objects[p[a]]) < RecordingStart(data_objects[p[b]])

\* Column col of the first k datasets by ascending start of recording, one
\* after the other: the samples of col (on the common clock, if col is a time
\* column), or as many zeros as the dataset has rows if it lacks col
RECURSIVE AscendingRows(_, _)
AscendingRows(col, k) ==
    IF k = 0 THEN <<>>
    ELSE LET d == data_objects[ByRecordingStart[k]]
             timecol == get_timecol(col)
         IN AscendingRows(col, k - 1) \o
            (IF timecol \notin Range(d.data_cols) THEN <<>>
             ELSE IF col \notin Range(d.data_cols) THEN Zeros(Len(d[timecol]))
             ELSE IF is_time(col) THEN Shifted(d[col], d.tstamp - result.tstamp)
             ELSE d[col])

\* The columns merged from the datasets
MergedColumns(cd) == Range(cd.data_cols) \ {"file number"}

\* C16: appended, the merged columns of the result are the columns of the
\* datasets one after the other by ascending start of recording (seen row
\* for row where nothing is truncated), and a call on the same datasets in
\* another order returns the same merged columns.
C16_AppendedByRecordingStart ==
    (Merged /\ append /\ StartsDistinct) =>
        /\ ~args.cutit =>
              \A col \in MergedColumns(result) :
                  result[col] = AscendingRows(col, Len(data_objects))
        /\ run = 2 =>
              /\ MergedColumns(result) = MergedColumns(first_result)
              /\ \A col \in MergedColumns(result) : result[col] = first_result[col]

\* Three datasets handed in from the latest to the earliest, then from the
\* earliest to the latest
C16_Witness ==
    /\ Merged
    /\ append
    /\ run = 2
    /\ Len(data_objects) = 3
    /\ \A a, b \in 1..3 :
          a < b => /\ RecordingStart(data_objects[a]) < RecordingStart(data_objects[b])
                   /\ RecordingStart(first_objects[a]) > RecordingStart(first_objects[b])
    /\ "Ewe/V" \in MergedColumns(result)
    /\ Len(result["Ewe/V"]) = 3 * MaxRows
    /\ result["Ewe/V"] = first_result["Ewe/V"]

-----------------------------------------------------------------------------
(* What the properties of the selector path of trigger_cal speak of *)

\* The last call matched triggers to the changes of the column shiftcol
SelectorPath ==
    /\ TriggerCalled
    /\ ~tg_last.raised
    /\ tg_last.args.shiftcol \in DOMAIN tg_data
    /\ Len(StrictlyWithinEdge) > 0

\* The places of the samples at which the column shiftcol changes; the first
\* sample counts as a change
ChangePlaces ==
    {k \in DOMAIN Pseudotime :
        k = 1 \/ tg_data[tg_last.args.shiftcol][k] # tg_data[tg_last.args.shiftcol][k - 1]}

Distance(a, b) == IF a < b THEN b - a ELSE a - b

\* The place of the change nearest to the time x, the earliest of them if two
\* are as near
NearestChange(x) ==
    CHOOSE k \in ChangePlaces :
        \A j \in ChangePlaces :
            \/ Distance(Pseudotime[k], x) < Distance(Pseudotime[j], x)
            \/ Distance(Pseudotime[k], x) = Distance(Pseudotime[j], x) /\ k <= j

\* The triggers in range whose nearest change is at place k, in the order given
Claimants(k) == SelectSeq(StrictlyWithinEdge, LAMBDA x : NearestChange(x) = k)

\* The calibrated time of the sample at place k
CalibratedAt(k) == tg_data[CalibratedName][k]

-----------------------------------------------------------------------------
(* C21 *)

\* C21: when two or more triggers have the same nearest change of the
\* selector, the pair matched for that change carries the time of the latest
\* of them: the sample at the change is calibrated to that trigger's time.
C21_LatestClaimantKept ==
    SelectorPath =>
        \A k \in ChangePlaces :
            Len(Claimants(k)) >= 2 =>
                CalibratedAt(k) = Claimants(k)[Len(Claimants(k))]

-----------------------------------------------------------------------------
(* C22 *)

\* The places of the changes that some trigger in range was matched to
MatchedPlaces == {k \in ChangePlaces : Len(Claimants(k)) > 0}

\* C22: with a selector column, in whatever order the triggers are given, the
\* sample at each matched change is calibrated to a trigger matched to it;
\* the samples up to the first matched change are shifted as that change is,
\* and the samples from the last matched change on as the last one is, first
\* and last in the order of the pseudotime.
C22_CalibratedToMatchedTriggers ==
    SelectorPath =>
        LET firstplace == SetMin(MatchedPlaces)
            lastplace == SetMax(MatchedPlaces)
            shift(k) == CalibratedAt(k) - Pseudotime[k]
        IN /\ \A k \in MatchedPlaces : CalibratedAt(k) \in Range(Claimants(k))
           /\ \A k \in DOMAIN Pseudotime :
                  /\ k <= firstplace => shift(k) = shift(firstplace)
                  /\ k >= lastplace => shift(k) = shift(lastplace)

-----------------------------------------------------------------------------
(* C23 *)

\* The last call calibrated: it was given a trigger in range
CalibrationPerformed ==
    /\ TriggerCalled
    /\ ~tg_last.raised
    /\ Len(StrictlyWithinEdge) > 0

PseudotimeName == TriggerNames(tg_last.before, tg_last.args).pseudotimecol

\* C23: after a call that calibrates, with or without a selector column,
\* data['pt_str'] and data['t_str'] name the pseudotime and the calibrated
\* column, both names are in data_cols, and data_cols holds only names of
\* columns of the dataset.
C23_NamesRegistered ==
    CalibrationPerformed =>
        /\ tg_data.pt_str = PseudotimeName
        /\ tg_data.t_str = CalibratedName
        /\ PseudotimeName \in Range(tg_data.data_cols)
        /\ CalibratedName \in Range(tg_data.data_cols)
        /\ \A k \in DOMAIN tg_data.data_cols : tg_data.data_cols[k] \in DOMAIN tg_data

-----------------------------------------------------------------------------
(* C24 *)

\* The name without its numeric suffix, the name itself if it has none
WithoutSuffix(col) ==
    IF SuffixStart(col) > 0 THEN SubSeq(col, 1, SuffixStart(col) - 1) ELSE col

\* C24: a name that is_time classifies as time is still classified as time
\* with a numeric suffix '_n' added.
C24_SuffixedTimeIsTime ==
    (/\ nm_is_time # "unasked"
     /\ SuffixStart(nm_col) > 0
     /\ is_time(WithoutSuffix(nm_col)))
    => nm_is_time = "True"

-----------------------------------------------------------------------------
(* C30 *)

\* C30: a name that is_time classifies as time is its own time column.
C30_TimeIsOwnTimecol ==
    (nm_timecol # "unasked" /\ is_time(nm_col)) => nm_timecol = nm_col

-----------------------------------------------------------------------------
(* C25 *)

\* The call of cut has ended, and it was given a window
CutEnded == w_pc \in {"returned", "aborted", "raised"} /\ w_args.tspan.kind = "list"

\* The places of the samples strictly inside the window
InsideWindow ==
    {k \in DOMAIN w_args.x :
        /\ w_args.tspan.ends[1] < w_args.x[k]
        /\ w_args.x[k] < w_args.tspan.ends[2]}

\* The samples of a at the places in S, in their order
RECURSIVE Kept(_, _, _)
Kept(a, S, k) ==
    IF k > Len(a) THEN <<>>
    ELSE (IF k \in S THEN <<a[k]>> ELSE <<>>) \o Kept(a, S, k + 1)

\* The decision point is to be consulted
ToConsult == Len(w_args.x) = 0 \/ (InsideWindow = {} /\ ~w_args.override)

\* C25: with a window, cut returns the samples of x strictly inside it and
\* the paired samples of y.  When x is empty, or no sample is inside and
\* override is not set, the decision point is consulted: if every answer is
\* to continue the (empty) result is returned, if an answer is to abort the
\* call terminates without a result.  Otherwise it is not consulted.
C25_CutOrAsk ==
    CutEnded =>
        /\ (w_asked > 0) = ToConsult
        /\ IF "n" \in Range(w_result.answers)
           THEN w_pc = "aborted" /\ w_result.value = EmptyDict
           ELSE /\ w_pc = "returned"
                /\ w_result.value.x = Kept(w_args.x, InsideWindow, 1)
                /\ w_result.value.y = Kept(w_args.y, InsideWindow, 1)

-----------------------------------------------------------------------------
(* C26 *)

\* The reference instant of a dataset: its tstamp, or the epoch time of its
\* date and timestamp
ReferenceInstant(d) ==
    IF "tstamp" \in DOMAIN d THEN d.tstamp
    ELSE timestamp_to_epoch_time(d.timestamp, d.date)

\* The datasets with data that have no tstamp
DatedWithData == {j \in WithData : "tstamp" \notin DOMAIN data_objects[j]}

\* C26: when a dataset with data has no tstamp and two or more datasets have
\* data, the epoch time of its date and timestamp is its reference instant in
\* the first pass (the overlap starts at the latest recording start counted
\* from the reference instants) and in the second (its time columns are
\* shifted by reference instant - t_zero), and the merge completes.
C26_DatedDatasetMerged ==
    (DatedWithData # {} /\ Cardinality(WithData) >= 2) =>
        /\ pc \notin {"call", "first_loop"} =>
               t_start = SetMax({ReferenceInstant(data_objects[j])
                                 + SetMin({data_objects[j][c][1] :
                                              c \in TimeColumns(data_objects[j])})
                                     : j \in WithData})
        /\ pc # "raised"
        /\ (pc = "done" /\ ~args.cutit) =>
               \A j \in DatedWithData : \A c \in TimeColumns(data_objects[j]) :
                   \E col \in Range(result.data_cols) :
                       result[col] = Shifted(data_objects[j][c],
                                             ReferenceInstant(data_objects[j])
                                             - result.tstamp)

-----------------------------------------------------------------------------
(* C27 *)

\* The columns of d whose time column d does not have
StrayColumns(d) == {c \in Range(d.data_cols) : get_timecol(c) \notin TimeColumns(d)}

\* The samples a occur in b, one after the other
OccursIn(a, b) ==
    \E start \in 0..(Len(b) - Len(a)) : SubSeq(b, start + 1, start + Len(a)) = a

\* C27: appended, when a dataset has a column without a time column in that
\* dataset, the call does not fail and every other column of the dataset, the
\* one listed right after it included, is merged: its samples (on the common
\* clock, for a time column) are in the column of that name of the result.
C27_OnlyStrayColumnDropped ==
    (/\ append
     /\ \A j \in WithData : "tstamp" \in DOMAIN data_objects[j]
     /\ \E j \in WithData : StrayColumns(data_objects[j]) # {})
    =>
    /\ pc # "raised"
    /\ (Merged /\ ~args.cutit) =>
           \A k \in 1..Len(MergedDatasets) :
               LET d == Original(MergedDatasets[k])
               IN \A col \in Range(d.data_cols) \ StrayColumns(d) :
                      /\ col \in DOMAIN result
                      /\ OccursIn(IF is_time(col)
                                  THEN Shifted(d[col], d.tstamp - result.tstamp)
                                  ELSE d[col],
                                  result[col])

-----------------------------------------------------------------------------
(* C28 *)

\* The combining numbers of the datasets that the first loop marked as
\* having data
Marked == {n \in DOMAIN hasdata : hasdata[n]}

\* The list of datasets is the one the second loop goes through
SortedForSecondLoop ==
    pc \in {"second_loop", "post", "done"} /\ Cardinality(Marked) >= 2

\* C28: every dataset that the first loop marked as having data is in the
\* list the second loop goes through exactly once, also when a dataset that
\* is empty after its header comes before or between them, and the datasets
\* with data are gone through by ascending start of their own recording.
C28_EveryMarkedDatasetMergedOnce ==
    SortedForSecondLoop =>
        /\ \A n \in Marked :
               Cardinality({k \in DOMAIN datasets :
                               datasets[k].combining_number = n}) = 1
        /\ \A a, b \in DOMAIN MergedDatasets :
               a < b => RecordingStart(Original(MergedDatasets[a]))
                        <= RecordingStart(Original(MergedDatasets[b]))

-----------------------------------------------------------------------------
(* C29 *)

\* Column name of the result holds column col of the k-th merged dataset:
\* it has its name, or its name suffixed with its combining number, and its
\* samples (on the common clock, for a time column)
KeepsColumn(name, k, col) ==
    LET d == Original(MergedDatasets[k])
    IN /\ name \in {col, col \o "_" \o ToString(MergedDatasets[k].combining_number)}
       /\ result[name] = IF is_time(col)
                         THEN Shifted(d[col], d.tstamp - result.tstamp)
                         ELSE d[col]

\* C29: kept apart and not truncated, every column of the combined dataset,
\* the suffixed ones included, has the length and the samples of the column
\* it comes from (on the common clock, for a time column): no zeros are added
\* after the second loop.
C29_KeptApartUnpadded ==
    (Merged /\ ~append /\ ~args.cutit) =>
        \A name \in Range(result.data_cols) :
            \E k \in 1..Len(MergedDatasets) :
                \E col \in Range(Original(MergedDatasets[k]).data_cols) :
                    KeepsColumn(name, k, col)

=============================================================================
